---------------------------- MODULE Spec2Model ----------------------------
(***************************************************************************)
(* A model of react-grab's core (packages/react-grab/src/core.tsx): the    *)
(* copy orchestrator (tryCopyWithFallback, copyElementAPI) and the         *)
(* interaction state machine built from the Solid signals of init().       *)
(***************************************************************************)
EXTENDS Naturals, Integers, Sequences, FiniteSets, TLC

(***************************************************************************)
(* Bounds of the model.                                                    *)
(***************************************************************************)
\* number of copy-orchestrator invocations followed in one behaviour
MaxCalls == 2
\* longest element list handed to the copy orchestrator
MaxElems == 2
\* number of label instances (shown or reserved by a started copy) at once
MaxLabels == 2
\* number of pending progress-animation frames progressAnimationId has lost
MaxFrames == 1
\* number of roots init() creates in one behaviour
MaxRoots == 3

(***************************************************************************)
(* The page.                                                               *)
(***************************************************************************)
AllElements == <<"e1", "e2", "e3">>
Elements == {AllElements[i] : i \in 1..MaxElems}
NoElement == "none"

\* what getElementContext(element) settles to: a snippet with text, a blank
\* snippet (empty or whitespace only), or a rejection
SnippetKinds == {"ok", "blank", "reject"}
\* what extractElementTextContent(element).trim() gives: text or nothing
TextKinds == {"t", "blank"}
\* the outcome of one copyContent(text) call
WriteOutcomes == {"ok", "fail", "throw"}
\* the optional extra instruction ("" is the absent prompt)
Prompts == {"", "p"}

VARIABLES
    dom,         \* per element: what its snippet lookup and its text content give
    calls,       \* the copy-orchestrator invocations made so far, in call order
    ui,          \* the signals and the mutable locals of init's createRoot closure
    ops,         \* the overlay's copy operations in flight
    sessions,    \* the agent manager's outstanding sessions
    scroll,      \* <<window.scrollX, window.scrollY>>
    lastResolve, \* what the last handlePointerUp of a drag did
    lastEvent,   \* the handler that ran last
    hasInited,   \* the module's hasInited flag
    roots        \* the roots init() has created, in order, each "live" or
                 \* "disposed"; ui holds the signals of the first

copyVars == <<dom, calls>>
lifeVars == <<hasInited, roots>>
mainVars == <<ui, ops, sessions, scroll, lastResolve, lastEvent, hasInited, roots>>
vars == <<dom, calls, ui, ops, sessions, scroll, lastResolve, lastEvent, hasInited, roots>>

DomStates == [Elements -> [snip : SnippetKinds, text : TextKinds]]

\* element lists without repetition, up to MaxElems long
ElementLists ==
    {<<>>} \cup
    UNION {{s \in [1..n -> Elements] : \A i, j \in 1..n : i # j => s[i] # s[j]}
           : n \in 1..MaxElems}

(***************************************************************************)
(* Hooks and clipboard writes are recorded per invocation.                 *)
(***************************************************************************)
NoText == <<>>
Hook(name, ok, text) == [hook |-> name, ok |-> ok, text |-> text]
Write(text, outcome) == [text |-> text, outcome |-> outcome]
\* a call record also counts, in thrown, the exceptions raised inside the try
\* block of tryCopyWithFallback (a rejected copyContent, a throwing
\* onCopySuccess); onBeforeCopy, onCopyError and onAfterCopy are taken not to
\* throw

NewCall(api, els, prompt) ==
    [pc |-> "done", api |-> api, els |-> els, prompt |-> prompt,
     didCopy |-> FALSE, copiedContent |-> NoText,
     hooks |-> <<>>, writes |-> <<>>, thrown |-> 0]

\* `${extraPrompt}\n\n${content}` when a prompt is given
WithPrompt(prompt, content) ==
    IF prompt # "" THEN <<<<"prompt", prompt>>>> \o content ELSE content

\* elements.map(text.trim()).filter(nonempty).join("\n\n")
createCombinedTextContent(els) ==
    LET kept == SelectSeq(els, LAMBDA e : dom[e].text # "blank")
    IN  [i \in 1..Len(kept) |-> <<"text", kept[i]>>]

\* the fulfilled, non-blank snippets of Promise.allSettled, joined
elementSnippets(els) ==
    LET kept == SelectSeq(els, LAMBDA e : dom[e].snip = "ok")
    IN  [i \in 1..Len(kept) |-> <<"snippet", kept[i]>>]

\* options.onAfterCopy?.(elements, didCopy); return didCopy -- and, when the
\* caller is copyElementAPI, its own onAfterCopy and return
AfterCopy(c) ==
    LET h == Append(c.hooks, Hook("onAfterCopy", c.didCopy, NoText))
    IN  [c EXCEPT !.pc = "done",
                  !.hooks = IF c.api
                            THEN Append(h, Hook("onAfterCopy", c.didCopy, NoText))
                            ELSE h]

\* mutant of CatchBlock: the exception is swallowed, onCopyError is not called
CatchBlock_Silent(c) ==
    LET text == createCombinedTextContent(c.els)
    IN  IF Len(text) > 0
        THEN [c EXCEPT !.pc = "catchWrite",
                       !.copiedContent = WithPrompt(c.prompt, text)]
        ELSE AfterCopy(c)

\* the catch block: onCopyError, then the plain-text fallback once more
CatchBlock(c) ==
    LET h == Append(c.hooks, Hook("onCopyError", FALSE, NoText))
        text == createCombinedTextContent(c.els)
    IN  IF Len(text) > 0
        THEN [c EXCEPT !.hooks = h, !.pc = "catchWrite",
                       !.copiedContent = WithPrompt(c.prompt, text)]
        ELSE AfterCopy([c EXCEPT !.hooks = h])

\* if (didCopy) onCopySuccess(elements, copiedContent): the hook may throw,
\* which the surrounding try catches
SuccessBlock(c, hookThrows) ==
    LET c1 == [c EXCEPT !.hooks = Append(@, Hook("onCopySuccess", TRUE, c.copiedContent))]
    IN  IF hookThrows THEN CatchBlock(c1) ELSE AfterCopy(c1)

\* mutant of FallbackBlock: didCopy is set before the write is attempted
FallbackBlock_CopiedEarly(c) ==
    LET text == createCombinedTextContent(c.els)
    IN  IF Len(text) > 0
        THEN [c EXCEPT !.pc = "fallbackWrite",
                       !.copiedContent = WithPrompt(c.prompt, text)]
        ELSE AfterCopy([c EXCEPT !.didCopy = TRUE])

\* if (!didCopy): the plain-text fallback of the try block
FallbackBlock(c) ==
    LET text == createCombinedTextContent(c.els)
    IN  IF Len(text) > 0
        THEN [c EXCEPT !.pc = "fallbackWrite",
                       !.copiedContent = WithPrompt(c.prompt, text)]
        ELSE AfterCopy(c)

\* mutant of StructuredBlock: the extra instruction is left out
StructuredBlock_NoPrompt(c) ==
    LET snippets == elementSnippets(c.els)
    IN  IF Len(snippets) > 0
        THEN [c EXCEPT !.pc = "structuredWrite", !.copiedContent = snippets]
        ELSE FallbackBlock(c)

\* after Promise.allSettled: the structured layer up to its clipboard write
StructuredBlock(c) ==
    LET snippets == elementSnippets(c.els)
    IN  IF Len(snippets) > 0
        THEN [c EXCEPT !.pc = "structuredWrite",
                       !.copiedContent = WithPrompt(c.prompt, snippets)]
        ELSE FallbackBlock(c)

\* tryCopyWithFallback up to its first await: await options.onBeforeCopy
tryCopyWithFallback(c) ==
    [c EXCEPT !.pc = "awaitBefore",
              !.hooks = Append(@, Hook("onBeforeCopy", FALSE, NoText))]

(***************************************************************************)
(* The steps of one invocation, one per await.                             *)
(***************************************************************************)
\* 1 when a write awaited inside the try block ends in an exception: the
\* write rejects, or it succeeds and onCopySuccess throws
TryThrows(outcome, hookThrows) ==
    IF outcome = "throw" \/ (outcome = "ok" /\ hookThrows) THEN 1 ELSE 0

\* mutant of copyElementAPI: the empty list is not returned early
copyElementAPI_NoEmptyGuard(els) ==
    /\ Len(calls) < MaxCalls
    /\ calls' = Append(calls,
          [NewCall(TRUE, els, "") EXCEPT
              !.pc = "apiAwaitBefore",
              !.hooks = <<Hook("onBeforeCopy", FALSE, NoText)>>])
    /\ UNCHANGED <<dom, mainVars>>

\* the public copyElement(elements)
copyElementAPI(els) ==
    /\ Len(calls) < MaxCalls
    /\ calls' = Append(calls,
          IF Len(els) = 0
          THEN NewCall(TRUE, els, "")
          ELSE [NewCall(TRUE, els, "") EXCEPT
                   !.pc = "apiAwaitBefore",
                   !.hooks = <<Hook("onBeforeCopy", FALSE, NoText)>>])
    /\ UNCHANGED <<dom, mainVars>>

\* copyElementAPI resumes after its own await of onBeforeCopy
ApiBeforeCopyDone(i) ==
    /\ calls[i].pc = "apiAwaitBefore"
    /\ calls' = [calls EXCEPT ![i] = tryCopyWithFallback(@)]
    /\ UNCHANGED <<dom, mainVars>>

\* the orchestrator as the overlay calls it: copySingleElementToClipboard
\* (one element, optional prompt) or copyMultipleElementsToClipboard
OverlayCopy(els, prompt) ==
    /\ Len(calls) < MaxCalls
    /\ Len(els) > 0
    /\ prompt # "" => Len(els) = 1
    /\ calls' = Append(calls, tryCopyWithFallback(NewCall(FALSE, els, prompt)))
    /\ UNCHANGED <<dom, mainVars>>

\* await options.onBeforeCopy resolves; the snippet lookups start
BeforeCopyDone(i) ==
    /\ calls[i].pc = "awaitBefore"
    /\ calls' = [calls EXCEPT ![i].pc = "awaitSnippets"]
    /\ UNCHANGED <<dom, mainVars>>

\* Promise.allSettled resolves
SnippetsSettled(i) ==
    /\ calls[i].pc = "awaitSnippets"
    /\ calls' = [calls EXCEPT ![i] = StructuredBlock(@)]
    /\ UNCHANGED <<dom, mainVars>>

\* didCopy = await copyContent(plainTextContent) settles
StructuredWriteDone(i, outcome, hookThrows) ==
    /\ calls[i].pc = "structuredWrite"
    /\ LET c == [calls[i] EXCEPT
                    !.writes = Append(@, Write(calls[i].copiedContent, outcome)),
                    !.didCopy = (outcome = "ok"),
                    !.thrown = @ + TryThrows(outcome, hookThrows)]
       IN  calls' = [calls EXCEPT ![i] =
                        CASE outcome = "ok" -> SuccessBlock(c, hookThrows)
                          [] outcome = "fail" -> FallbackBlock(c)
                          [] OTHER -> CatchBlock(c)]
    /\ UNCHANGED <<dom, mainVars>>

\* didCopy = await copyContent(contentWithPrompt) of the try block settles
FallbackWriteDone(i, outcome, hookThrows) ==
    /\ calls[i].pc = "fallbackWrite"
    /\ LET c == [calls[i] EXCEPT
                    !.writes = Append(@, Write(calls[i].copiedContent, outcome)),
                    !.didCopy = (outcome = "ok"),
                    !.thrown = @ + TryThrows(outcome, hookThrows)]
       IN  calls' = [calls EXCEPT ![i] =
                        CASE outcome = "ok" -> SuccessBlock(c, hookThrows)
                          [] outcome = "fail" -> AfterCopy(c)
                          [] OTHER -> CatchBlock(c)]
    /\ UNCHANGED <<dom, mainVars>>

\* didCopy = await copyContent(contentWithPrompt) of the catch block settles;
\* a throw here leaves the function: the invocation rejects
CatchWriteDone(i, outcome) ==
    /\ calls[i].pc = "catchWrite"
    /\ LET c == [calls[i] EXCEPT
                    !.writes = Append(@, Write(calls[i].copiedContent, outcome))]
       IN  calls' = [calls EXCEPT ![i] =
                        IF outcome = "throw"
                        THEN [c EXCEPT !.pc = "threw"]
                        ELSE AfterCopy([c EXCEPT !.didCopy = (outcome = "ok")])]
    /\ UNCHANGED <<dom, mainVars>>

(***************************************************************************)
(* The interaction state machine.                                          *)
(*                                                                         *)
(* ui holds the signals of createRoot (isHoldingKeys ... nativeSelection-  *)
(* Elements) and its mutable locals (the timer ids, activationTimestamp,   *)
(* document.body.style.userSelect).  A handler is an operator from the     *)
(* closure state to the closure state, written as the sequence of signal   *)
(* writes of the source: Solid runs the effects of a write before the      *)
(* setter returns, so the effect that copies targetElement() into          *)
(* frozenElement is applied after every single write.                      *)
(***************************************************************************)
\* copy operations of the overlay followed at the same time
MaxOps == 2
\* agent sessions followed at the same time
MaxSessions == 1

OFFSCREEN_POSITION == 0 - 1000
DRAG_THRESHOLD_PX == 2
\* the autoscroll constants, on the scale of the model's coordinates
AUTO_SCROLL_EDGE_THRESHOLD_PX == 1
AUTO_SCROLL_SPEED_PX == 1

\* the keys are told apart as Escape, Enter, the activation key (c), the
\* open-file key (o), another letter (v) and a bare modifier (Meta)
MODIFIER_KEYS == {"Meta"}
\* what the prompt input can hold: nothing, white space, a prompt
InputTexts == {"", " ", "p"}
Trim(text) == IF text = " " THEN "" ELSE text

\* page coordinates used on each axis: 0, the threshold and one past it
AxisValues == {0, DRAG_THRESHOLD_PX, DRAG_THRESHOLD_PX + 1}
ScrollValues == {0, 1}

\* createElementBounds(element): every element is given the same small box
BoundsCenterX(e) == 1
BoundsCenterY(e) == 1

isRendererActive(u) == u.isActivated /\ ~u.isCopying

targetElement_WhileDragging(u) ==
    IF ~isRendererActive(u) THEN NoElement ELSE u.detectedElement

\* the memo targetElement
targetElement(u) ==
    IF ~isRendererActive(u) \/ u.isDragging THEN NoElement ELSE u.detectedElement

\* one signal write, followed by the effect
\*   createEffect(() => { const element = targetElement();
\*                        if (element) setFrozenElement(element); })
\* which runs when the memo's value has changed
Set(u, field, value) ==
    LET w == [u EXCEPT ![field] = value]
    IN  IF targetElement(w) # targetElement(u) /\ targetElement(w) # NoElement
        THEN [w EXCEPT !.frozenElement = targetElement(w)]
        ELSE w

\* a sequence of signal writes, in order
RECURSIVE Apply(_, _)
Apply(u, writes) ==
    IF Len(writes) = 0
    THEN u
    ELSE Apply(Set(u, writes[1][1], writes[1][2]), Tail(writes))

\* The progress animation.  u.progressAnimation: the frame whose id is in
\* progressAnimationId is pending; progressStartTime is set exactly then.
\* u.untrackedFrames: the pending frames of animateProgress whose id
\* progressAnimationId no longer holds.
\* startProgressAnimation, called with isCopying true: animateProgress runs
\* at once and requests a frame, overwriting progressAnimationId
startProgressAnimation(u) ==
    [u EXCEPT !.progressAnimation = TRUE,
              !.untrackedFrames = IF u.progressAnimation THEN @ + 1 ELSE @]

stopProgressAnimation(u) == [u EXCEPT !.progressAnimation = FALSE]

\* animateProgress as the callback of a frame progressAnimationId has lost,
\* with progressStartTime null: it returns.  (With progressStartTime set it
\* requests the next frame, which leaves as many frames pending.)
animateProgress(u) == [u EXCEPT !.untrackedFrames = @ - 1]

stopAutoScroll(u) == [u EXCEPT !.autoScroll = FALSE]

\* options.onActivate?.() and options.onDeactivate?.(): the callbacks are
\* optional (u.lifecycleCallbacks: the host has passed them).  u.callbackLog
\* keeps the last two of them that were invoked, oldest first
LastTwo(log) == IF Len(log) <= 2 THEN log ELSE Tail(log)

invokeCallback(u, name) ==
    IF u.lifecycleCallbacks
    THEN [u EXCEPT !.callbackLog = LastTwo(Append(@, name))]
    ELSE u

activateRenderer(u) ==
    LET a == [stopProgressAnimation(u) EXCEPT !.activationTimestamp = "set"]
    IN  invokeCallback(Set(a, "isActivated", TRUE), "onActivate")

\* mutant of deactivateRenderer: the hold timer is left running
deactivateRenderer_KeepsHoldTimer(u) ==
    LET a == Apply(u, << <<"isToggleMode", FALSE>>, <<"isHoldingKeys", FALSE>>,
                         <<"isActivated", FALSE>>, <<"isInputMode", FALSE>>,
                         <<"inputText", "">>, <<"isToggleFrozen", FALSE>>,
                         <<"isInputExpanded", FALSE>>,
                         <<"frozenElement", NoElement>> >>)
        b == IF a.isDragging
             THEN [Set(a, "isDragging", FALSE) EXCEPT !.userSelect = ""]
             ELSE a
    IN  invokeCallback([stopProgressAnimation(stopAutoScroll(b)) EXCEPT
                           !.keydownSpamTimer = FALSE,
                           !.activationTimestamp = "null"], "onDeactivate")

\* mutant of deactivateRenderer: the prompt text is kept
deactivateRenderer_KeepsInputText(u) ==
    LET a == Apply(u, << <<"isToggleMode", FALSE>>, <<"isHoldingKeys", FALSE>>,
                         <<"isActivated", FALSE>>, <<"isInputMode", FALSE>>,
                         <<"isToggleFrozen", FALSE>>,
                         <<"isInputExpanded", FALSE>>,
                         <<"frozenElement", NoElement>> >>)
        b == IF a.isDragging
             THEN [Set(a, "isDragging", FALSE) EXCEPT !.userSelect = ""]
             ELSE a
    IN  invokeCallback([stopProgressAnimation(stopAutoScroll(b)) EXCEPT
                           !.holdTimer = FALSE,
                           !.keydownSpamTimer = FALSE,
                           !.activationTimestamp = "null"], "onDeactivate")

deactivateRenderer(u) ==
    LET a == Apply(u, << <<"isToggleMode", FALSE>>, <<"isHoldingKeys", FALSE>>,
                         <<"isActivated", FALSE>>, <<"isInputMode", FALSE>>,
                         <<"inputText", "">>, <<"isToggleFrozen", FALSE>>,
                         <<"isInputExpanded", FALSE>>,
                         <<"frozenElement", NoElement>> >>)
        b == IF a.isDragging
             THEN [Set(a, "isDragging", FALSE) EXCEPT !.userSelect = ""]
             ELSE a
    IN  invokeCallback([stopProgressAnimation(stopAutoScroll(b)) EXCEPT
                           !.holdTimer = FALSE,
                           !.keydownSpamTimer = FALSE,
                           !.activationTimestamp = "null"], "onDeactivate")

\* the default activation combination of isTargetKeyCombination: the
\* activation key with meta or ctrl held
isTargetKeyCombination(key, mod) == mod /\ key = "c"

\* agentManager.isProcessing()
isProcessing == sessions # {}

\* mutant of keydownHandler: a non-activation chord is ignored
keydownHandler_ChordIgnored(u, key, mod, repeat, fromOverlay) ==
    IF u.isInputMode \/ fromOverlay
      THEN u   \* Escape asks the agent manager to abort; nothing of ui changes
    ELSE IF key = "Escape" /\ isProcessing
      THEN u
    ELSE IF key = "Escape" /\ u.isHoldingKeys
      THEN deactivateRenderer(u)
    ELSE IF key = "Enter" /\ u.isHoldingKeys /\ ~u.isInputMode
      THEN LET a == Apply(u, << <<"isToggleMode", TRUE>>, <<"isToggleFrozen", TRUE>>,
                                <<"isInputExpanded", TRUE>> >>)
               b == [a EXCEPT !.keydownSpamTimer = FALSE]
               c == IF ~b.isActivated
                    THEN activateRenderer([b EXCEPT !.holdTimer = FALSE])
                    ELSE b
           IN  Set(c, "isInputMode", TRUE)
    ELSE IF key = "o" /\ ~u.isInputMode /\ u.isActivated /\ mod
      THEN u   \* opens the source file; nothing of ui changes
    ELSE IF ~isTargetKeyCombination(key, mod) /\ key # "Enter"
      THEN u
    ELSE IF u.isActivated
      THEN IF u.isToggleMode \/ repeat
           THEN u
           ELSE [u EXCEPT !.keydownSpamTimer = TRUE]
    ELSE IF u.isHoldingKeys /\ repeat
      THEN u
    ELSE [Set(u, "isHoldingKeys", TRUE) EXCEPT !.holdTimer = TRUE]

\* mutant of keydownHandler: Escape closes the prompt input
keydownHandler_EscapeClosesInput(u, key, mod, repeat, fromOverlay) ==
    IF u.isInputMode \/ fromOverlay
      THEN IF key = "Escape" /\ u.isInputMode THEN deactivateRenderer(u) ELSE u
    ELSE IF key = "Escape" /\ isProcessing
      THEN u
    ELSE IF key = "Escape" /\ u.isHoldingKeys
      THEN deactivateRenderer(u)
    ELSE IF key = "Enter" /\ u.isHoldingKeys /\ ~u.isInputMode
      THEN LET a == Apply(u, << <<"isToggleMode", TRUE>>, <<"isToggleFrozen", TRUE>>,
                                <<"isInputExpanded", TRUE>> >>)
               b == [a EXCEPT !.keydownSpamTimer = FALSE]
               c == IF ~b.isActivated
                    THEN activateRenderer([b EXCEPT !.holdTimer = FALSE])
                    ELSE b
           IN  Set(c, "isInputMode", TRUE)
    ELSE IF key = "o" /\ ~u.isInputMode /\ u.isActivated /\ mod
      THEN u   \* opens the source file; nothing of ui changes
    ELSE IF ~isTargetKeyCombination(key, mod) /\ key # "Enter"
      THEN IF u.isActivated /\ ~u.isToggleMode /\ mod /\ key \notin MODIFIER_KEYS
           THEN deactivateRenderer(u)
           ELSE u
    ELSE IF u.isActivated
      THEN IF u.isToggleMode \/ repeat
           THEN u
           ELSE [u EXCEPT !.keydownSpamTimer = TRUE]
    ELSE IF u.isHoldingKeys /\ repeat
      THEN u
    ELSE [Set(u, "isHoldingKeys", TRUE) EXCEPT !.holdTimer = TRUE]

\* the keydown listener
keydownHandler(u, key, mod, repeat, fromOverlay) ==
    IF u.isInputMode \/ fromOverlay
      THEN u   \* Escape asks the agent manager to abort; nothing of ui changes
    ELSE IF key = "Escape" /\ isProcessing
      THEN u
    ELSE IF key = "Escape" /\ u.isHoldingKeys
      THEN deactivateRenderer(u)
    ELSE IF key = "Enter" /\ u.isHoldingKeys /\ ~u.isInputMode
      THEN LET a == Apply(u, << <<"isToggleMode", TRUE>>, <<"isToggleFrozen", TRUE>>,
                                <<"isInputExpanded", TRUE>> >>)
               b == [a EXCEPT !.keydownSpamTimer = FALSE]
               c == IF ~b.isActivated
                    THEN activateRenderer([b EXCEPT !.holdTimer = FALSE])
                    ELSE b
           IN  Set(c, "isInputMode", TRUE)
    ELSE IF key = "o" /\ ~u.isInputMode /\ u.isActivated /\ mod
      THEN u   \* opens the source file; nothing of ui changes
    ELSE IF ~isTargetKeyCombination(key, mod) /\ key # "Enter"
      THEN IF u.isActivated /\ ~u.isToggleMode /\ mod /\ key \notin MODIFIER_KEYS
           THEN deactivateRenderer(u)
           ELSE u
    ELSE IF u.isActivated
      THEN IF u.isToggleMode \/ repeat
           THEN u
           ELSE [u EXCEPT !.keydownSpamTimer = TRUE]
    ELSE IF u.isHoldingKeys /\ repeat
      THEN u
    ELSE [Set(u, "isHoldingKeys", TRUE) EXCEPT !.holdTimer = TRUE]

\* keyup with the default options: the modifier is released when neither
\* meta nor ctrl is held any more, the activation key when the key is C
isReleasingModifier(key, mod) == ~mod
isReleasingActivationKey(key, mod) == key = "c"

\* the keyup listener
keyupHandler(u, key, mod) ==
    IF ~u.isHoldingKeys /\ ~u.isActivated THEN u
    ELSE IF u.isInputMode THEN u
    ELSE IF u.isActivated
      THEN IF isReleasingModifier(key, mod)
           THEN IF u.isToggleMode THEN u ELSE deactivateRenderer(u)
           ELSE IF isReleasingActivationKey(key, mod)
                THEN [u EXCEPT !.keydownSpamTimer = FALSE]
                ELSE u
    ELSE IF isReleasingActivationKey(key, mod) \/ isReleasingModifier(key, mod)
      THEN IF u.isToggleMode THEN u ELSE deactivateRenderer(u)
    ELSE u

\* getAutoScrollDirection; the window is taken to be wider and higher than
\* the coordinates used, so only its top and left edges are ever near
getAutoScrollDirection(x, y) ==
    [top |-> y < AUTO_SCROLL_EDGE_THRESHOLD_PX,
     left |-> x < AUTO_SCROLL_EDGE_THRESHOLD_PX]

\* window.scrollBy towards the top or the left: the offset stops at 0
ScrollBack(offset) ==
    IF offset < AUTO_SCROLL_SPEED_PX THEN 0 ELSE offset - AUTO_SCROLL_SPEED_PX

\* the function scroll of startAutoScroll, run by startAutoScroll and as
\* the callback of its frame: the new state and window offsets
autoScrollFrame(u, offsets) ==
    LET direction == getAutoScrollDirection(u.mouseX, u.mouseY)
    IN  IF ~u.isDragging
        THEN [ui |-> stopAutoScroll(u), scroll |-> offsets]
        ELSE [ui |-> [u EXCEPT !.autoScroll = direction.top \/ direction.left],
              scroll |-> <<IF direction.left THEN ScrollBack(offsets[1])
                                            ELSE offsets[1],
                           IF direction.top THEN ScrollBack(offsets[2])
                                           ELSE offsets[2]>>]

\* handlePointerMove: the new state and window offsets; scheduled says
\* whether the detection throttle lets this move schedule an element lookup
\* (onIdle)
handlePointerMove(u, x, y, scheduled) ==
    IF u.isInputMode \/ u.isToggleFrozen
    THEN [ui |-> u, scroll |-> scroll]
    ELSE LET a == [Apply(u, << <<"mouseX", x>>, <<"mouseY", y>> >>)
                      EXCEPT !.detectPending = @ \/ scheduled]
             direction == getAutoScrollDirection(x, y)
             isNearEdge == direction.top \/ direction.left
         IN  IF a.isDragging /\ isNearEdge /\ ~a.autoScroll
             THEN autoScrollFrame(a, scroll)
             ELSE IF a.isDragging /\ ~isNearEdge /\ a.autoScroll
             THEN [ui |-> stopAutoScroll(a), scroll |-> scroll]
             ELSE [ui |-> a, scroll |-> scroll]

\* the onIdle callback of handlePointerMove: getElementAtPosition, then
\* setDetectedElement(candidate)
detectCallback(u, candidate) ==
    Set([u EXCEPT !.detectPending = FALSE], "detectedElement", candidate)

\* mutant of handlePointerDown: a drag starts whatever the state
handlePointerDown_Unguarded(u, x, y) ==
    [Apply(u, << <<"isDragging", TRUE>>,
                 <<"dragStartX", x + scroll[1]>>,
                 <<"dragStartY", y + scroll[2]>> >>)
        EXCEPT !.userSelect = "none"]

\* handlePointerDown: the new state (unchanged when it returns false)
handlePointerDown(u, x, y) ==
    IF ~isRendererActive(u) \/ u.isCopying
    THEN u
    ELSE [Apply(u, << <<"isDragging", TRUE>>,
                      <<"dragStartX", x + scroll[1]>>,
                      <<"dragStartY", y + scroll[2]>> >>)
             EXCEPT !.userSelect = "none"]

handleInputCancel(u) == IF ~u.isInputMode THEN u ELSE deactivateRenderer(u)

\* mutant of pointerDownListener: input mode is not looked at
pointerDownListener_IgnoresInputMode(u, x, y) == handlePointerDown(u, x, y)

\* the mousedown and touchstart listeners
pointerDownListener(u, x, y) ==
    IF u.isInputMode THEN handleInputCancel(u) ELSE handlePointerDown(u, x, y)

calculateDragDistance(u, endX, endY) ==
    LET dx == (endX + scroll[1]) - u.dragStartX
        dy == (endY + scroll[2]) - u.dragStartY
    IN  [x |-> IF dx < 0 THEN 0 - dx ELSE dx, y |-> IF dy < 0 THEN 0 - dy ELSE dy]

Min(a, b) == IF a < b THEN a ELSE b

\* mutant of calculateDragRectangle: the corner is left in page coordinates
calculateDragRectangle_PageSpace(u, endX, endY) ==
    LET endPageX == endX + scroll[1]
        endPageY == endY + scroll[2]
        dist == calculateDragDistance(u, endX, endY)
    IN  [x |-> Min(u.dragStartX, endPageX),
         y |-> Min(u.dragStartY, endPageY),
         width |-> dist.x, height |-> dist.y]

calculateDragRectangle(u, endX, endY) ==
    LET endPageX == endX + scroll[1]
        endPageY == endY + scroll[2]
        dist == calculateDragDistance(u, endX, endY)
    IN  [x |-> Min(u.dragStartX, endPageX) - scroll[1],
         y |-> Min(u.dragStartY, endPageY) - scroll[2],
         width |-> dist.x, height |-> dist.y]

\* mutant of wasDragGesture: a displacement equal to the threshold is a drag
wasDragGesture_Inclusive(u, endX, endY) ==
    LET dragDistance == calculateDragDistance(u, endX, endY)
    IN  dragDistance.x >= DRAG_THRESHOLD_PX \/ dragDistance.y >= DRAG_THRESHOLD_PX

wasDragGesture(u, endX, endY) ==
    LET dragDistance == calculateDragDistance(u, endX, endY)
    IN  dragDistance.x > DRAG_THRESHOLD_PX \/ dragDistance.y > DRAG_THRESHOLD_PX

\* mutant of selectedElements: the loose result is preferred
selectedElements_LooseFirst(strictResult, looseResult) ==
    IF Len(looseResult) > 0 THEN looseResult ELSE strictResult

\* the elements a drag gesture selects: the strict query's result, and the
\* loose query's only when the strict one is empty
selectedElements(strictResult, looseResult) ==
    IF Len(strictResult) > 0 THEN strictResult ELSE looseResult

\* handlePointerUp while dragging, as far as ui goes.  elementAt is what
\* getElementAtPosition gives at the pointer-up position, strictResult and
\* looseResult what getElementsInDrag and getElementsInDragLoose give
handlePointerUp(u, x, y, elementAt, strictResult, looseResult) ==
    LET a == [stopAutoScroll(Set(u, "isDragging", FALSE)) EXCEPT !.userSelect = ""]
        selected == selectedElements(strictResult, looseResult)
    IN  IF wasDragGesture(u, x, y)
        THEN LET b == Set(a, "didJustDrag", TRUE)
             IN  IF Len(selected) > 0 /\ b.hasAgentProvider
                 THEN Apply(b, << <<"mouseX", BoundsCenterX(selected[1])>>,
                                  <<"mouseY", BoundsCenterY(selected[1])>>,
                                  <<"frozenElement", selected[1]>>,
                                  <<"isToggleMode", TRUE>>,
                                  <<"isToggleFrozen", TRUE>>,
                                  <<"isInputExpanded", TRUE>>,
                                  <<"isInputMode", TRUE>> >>)
                 ELSE b
        ELSE a

\* the elements handlePointerUp hands to a copy operation (<<>> when none)
pointerUpCopies(u, x, y, elementAt, strictResult, looseResult) ==
    IF wasDragGesture(u, x, y)
    THEN IF u.hasAgentProvider THEN <<>> ELSE selectedElements(strictResult, looseResult)
    ELSE IF elementAt = NoElement THEN <<>> ELSE <<elementAt>>

\* which DOM queries handlePointerUp makes
pointerUpQueries(u, x, y, strictResult) ==
    IF wasDragGesture(u, x, y)
    THEN IF Len(strictResult) > 0
         THEN {"getElementsInDrag"}
         ELSE {"getElementsInDrag", "getElementsInDragLoose"}
    ELSE {"getElementAtPosition"}

\* the click listener
clickListener(u) ==
    IF isRendererActive(u) \/ u.isCopying \/ u.didJustDrag
    THEN LET a == IF u.didJustDrag THEN Set(u, "didJustDrag", FALSE) ELSE u
         IN  IF a.isToggleMode /\ ~a.isCopying
             THEN IF ~a.isHoldingKeys
                  THEN deactivateRenderer(a)
                  ELSE Set(a, "isToggleMode", FALSE)
             ELSE a
    ELSE u

visibilityListener_Always(u, elapsed) ==
    IF u.isActivated THEN deactivateRenderer(u) ELSE u

\* the visibilitychange listener with document.hidden true; elapsed: more
\* than BLUR_DEACTIVATION_THRESHOLD_MS have passed since activationTimestamp
visibilityListener(u, elapsed) ==
    IF u.isActivated /\ ~u.isInputMode /\ u.activationTimestamp # "null" /\ elapsed
    THEN deactivateRenderer(u)
    ELSE u

handleToggleExpand(u) ==
    Apply(u, << <<"isToggleMode", TRUE>>, <<"isToggleFrozen", TRUE>>,
                <<"isInputExpanded", TRUE>>, <<"isInputMode", TRUE>> >>)

clearNativeSelectionState(u) == Set(u, "nativeSelectionElements", <<>>)

\* the selectionchange listener; collapsed: the selection is empty
selectionchangeListener(u, collapsed) ==
    IF isRendererActive(u)
    THEN u
    ELSE LET a == Set([u EXCEPT !.selectionDebounceTimer = FALSE],
                      "hasNativeSelection", FALSE)
         IN  IF collapsed
             THEN clearNativeSelectionState(a)
             ELSE [a EXCEPT !.selectionDebounceTimer = TRUE]

\* the debounced selection callback.  result is what the selection resolves
\* to when the timer fires: "gone" (collapsed or without geometry),
\* "editable" (inside an editable element), "invalid" (an element that is
\* not grabbable) or "valid", with the resolved element
selectionTimerCallback(u, result, element) ==
    LET a == [u EXCEPT !.selectionDebounceTimer = FALSE]
    IN  CASE result = "gone" -> a
          [] result = "editable" -> clearNativeSelectionState(a)
          [] result = "valid" ->
                Apply(a, << <<"nativeSelectionElements", <<element>> >>,
                            <<"hasNativeSelection", TRUE>> >>)
          [] OTHER -> Set(a, "nativeSelectionElements", <<>>)

\* handleNativeSelectionCopy and handleNativeSelectionEnter up to the copy
clearNativeSelection(u) ==
    clearNativeSelectionState(Set(u, "hasNativeSelection", FALSE))

handleNativeSelectionEnter(u) ==
    IF Len(u.nativeSelectionElements) = 0
    THEN u
    ELSE LET e == u.nativeSelectionElements[1]
             a == Apply(clearNativeSelection(u),
                        << <<"mouseX", BoundsCenterX(e)>>,
                           <<"mouseY", BoundsCenterY(e)>>,
                           <<"isToggleMode", TRUE>>, <<"isToggleFrozen", TRUE>>,
                           <<"isInputExpanded", TRUE>> >>)
         IN  Set(activateRenderer(a), "isInputMode", TRUE)

onAbort_IgnoresDetached(u, s, present) ==
    LET a == Apply(u, << <<"frozenElement", s.element>>,
                         <<"inputText", s.prompt>>,
                         <<"isInputMode", TRUE>> >>)
    IN  IF ~a.isActivated THEN activateRenderer(a) ELSE a

\* the onAbort callback given to the agent manager; present: the session's
\* element was passed and document.contains(element) holds
onAbort(u, s, present) ==
    IF ~present
    THEN u
    ELSE LET a == Apply(u, << <<"mouseX", s.x>>,
                              <<"mouseY", BoundsCenterY(s.element)>>,
                              <<"frozenElement", s.element>>,
                              <<"inputText", s.prompt>>,
                              <<"isInputExpanded", TRUE>>,
                              <<"isInputMode", TRUE>>,
                              <<"isToggleMode", TRUE>>,
                              <<"isToggleFrozen", TRUE>> >>)
         IN  IF ~a.isActivated THEN activateRenderer(a) ELSE a

\* Label instances.  The code names an instance by a fresh string
\* (label-<time>-<random>); the model names it by the smallest number no
\* shown instance carries
LabelIds == 1..MaxLabels

LabelIdsOf(u) == {u.labelInstances[k].id : k \in 1..Len(u.labelInstances)}

NextLabelId(u) ==
    CHOOSE id \in LabelIds :
        /\ id \notin LabelIdsOf(u)
        /\ \A other \in LabelIds \ LabelIdsOf(u) : id <= other

createLabelInstance(u, id, status) ==
    [u EXCEPT !.labelInstances = Append(@, [id |-> id, status |-> status])]

updateLabelInstance_Resets(u, id, status) ==
    [u EXCEPT !.labelInstances =
        [k \in 1..Len(@) |-> IF @[k].id = id
                              THEN [@[k] EXCEPT !.status =
                                       IF status = "fading" THEN "copying"
                                       ELSE status]
                              ELSE @[k]]]

updateLabelInstance(u, id, status) ==
    [u EXCEPT !.labelInstances =
        [k \in 1..Len(@) |-> IF @[k].id = id
                              THEN [@[k] EXCEPT !.status = status]
                              ELSE @[k]]]

removeLabelInstance(u, id) ==
    [u EXCEPT !.labelInstances =
        SelectSeq(@, LAMBDA instance : instance.id # id)]

\* executeCopyOperation up to its await.  It creates a label instance only
\* when it is given bounds and a tag name (u.labelBounds: whether the copies
\* of this behaviour are); without one the instance id is null, here 0
InstanceId(u) == IF u.labelBounds THEN NextLabelId(u) ELSE 0

executeCopyOperation(u) ==
    LET a == startProgressAnimation(Set(u, "isCopying", TRUE))
    IN  IF u.labelBounds
        THEN createLabelInstance(a, InstanceId(u), "copying")
        ELSE a

\* mutant of copyOperationFinally: the toggle latch is not looked at
copyOperationFinally_IgnoresToggle(u, instanceId) ==
    LET b == stopProgressAnimation(Set(u, "isCopying", FALSE))
    IN  IF instanceId # 0 THEN updateLabelInstance(b, instanceId, "copied") ELSE b

\* the finally callback of executeCopyOperation for the instance it created;
\* it also arms the timer that lets the label fade
copyOperationFinally(u, instanceId) ==
    LET b == stopProgressAnimation(Set(u, "isCopying", FALSE))
        a == IF instanceId # 0
             THEN updateLabelInstance(b, instanceId, "copied")
             ELSE b
    IN  IF a.isToggleMode THEN deactivateRenderer(a) ELSE a

(***************************************************************************)
(* Copy operations of the overlay and agent sessions.                      *)
(***************************************************************************)
\* ops lists the copy operations in flight in the order they were started,
\* each with its phase ("lookup": waiting for getNearestComponentName,
\* "copying": inside executeCopyOperation) and its kind ("submit": started by
\* handleInputSubmit, which deactivates when the copy ends, "grab": the others).
\* A copy operation enters in the given phase; when MaxOps are in flight a
\* further one is not followed
\* and the label it will show (0 before it has one).  A further operation is
\* not followed either when its label would exceed MaxLabels
LookupCount == Cardinality({k \in 1..Len(ops) : ops[k].phase = "lookup"})

CanStartOp ==
    /\ Len(ops) < MaxOps
    /\ ui.untrackedFrames < MaxFrames
    /\ ui.labelBounds => LookupCount + Len(ui.labelInstances) < MaxLabels

StartOp(phase, kind, els, prompt) ==
    IF Len(els) = 0 \/ ~CanStartOp
    THEN ops
    ELSE Append(ops, [phase |-> phase, kind |-> kind,
                      label |-> IF phase = "copying" THEN InstanceId(ui) ELSE 0])

RemoveAt(seq, i) == [k \in 1..(Len(seq) - 1) |-> IF k < i THEN seq[k] ELSE seq[k + 1]]

NoResolve ==
    [gesture |-> "none", startX |-> 0, startY |-> 0, endX |-> 0, endY |-> 0,
     rect |-> [x |-> 0, y |-> 0, width |-> 0, height |-> 0],
     elementAt |-> NoElement, strict |-> <<>>, loose |-> <<>>,
     queries |-> {}, selected |-> <<>>, copies |-> <<>>]

InitUi(agent) ==
    [isHoldingKeys |-> FALSE, mouseX |-> OFFSCREEN_POSITION,
     mouseY |-> OFFSCREEN_POSITION, detectedElement |-> NoElement,
     isDragging |-> FALSE, dragStartX |-> OFFSCREEN_POSITION,
     dragStartY |-> OFFSCREEN_POSITION, isCopying |-> FALSE,
     isActivated |-> FALSE, isToggleMode |-> FALSE, didJustDrag |-> FALSE,
     isInputMode |-> FALSE, inputText |-> "", isToggleFrozen |-> FALSE,
     isInputExpanded |-> FALSE, frozenElement |-> NoElement,
     hasAgentProvider |-> agent, hasNativeSelection |-> FALSE,
     nativeSelectionElements |-> <<>>,
     holdTimer |-> FALSE, keydownSpamTimer |-> FALSE,
     selectionDebounceTimer |-> FALSE, detectPending |-> FALSE,
     progressAnimation |-> FALSE, autoScroll |-> FALSE,
     activationTimestamp |-> "null", userSelect |-> "",
     labelBounds |-> FALSE, labelInstances |-> <<>>, hiddenFor |-> "visible",
     untrackedFrames |-> 0,
     lifecycleCallbacks |-> FALSE, callbackLog |-> <<>>]

(***************************************************************************)
(* The events.                                                             *)
(***************************************************************************)
\* lastEvent names the handler that last changed the state (a handler that
\* returns without a write leaves no trace; the keyup listener is named by
\* its branch, activated or holding); lastResolve describes the
\* gesture when that handler was handlePointerUp
Changed == <<ui, ops, sessions, scroll>>' # <<ui, ops, sessions, scroll>>

Stamp(name) ==
    /\ lastEvent' = IF Changed THEN name ELSE lastEvent
    /\ lastResolve' = IF Changed THEN NoResolve ELSE lastResolve

\* the listeners of the first root are installed: its abortController has
\* not been aborted
Listening == roots[1] = "live"

KeyDown(key, mod, repeat, fromOverlay) ==
    /\ Listening
    /\ ui' = keydownHandler(ui, key, mod, repeat, fromOverlay)
    /\ UNCHANGED <<ops, sessions, scroll, copyVars, lifeVars>>
    /\ IF key = "Escape" /\ isProcessing
       THEN lastEvent' = "abortAllSessions" /\ lastResolve' = NoResolve
       ELSE Stamp("keydown")

KeyUp(key, mod) ==
    /\ Listening
    /\ ui' = keyupHandler(ui, key, mod)
    /\ UNCHANGED <<ops, sessions, scroll, copyVars, lifeVars>>
    /\ Stamp(IF ui.isActivated THEN "keyup" ELSE "keyupHolding")

\* the hold timer armed by keydown fires
HoldTimerFire ==
    /\ ui.holdTimer
    /\ ui' = activateRenderer([ui EXCEPT !.holdTimer = FALSE])
    /\ UNCHANGED <<ops, sessions, scroll, copyVars, lifeVars>>
    /\ Stamp("holdTimer")

\* the spam-guard timer armed by keydown fires
SpamTimerFire ==
    /\ ui.keydownSpamTimer
    /\ ui' = deactivateRenderer([ui EXCEPT !.keydownSpamTimer = FALSE])
    /\ UNCHANGED <<ops, sessions, scroll, copyVars, lifeVars>>
    /\ Stamp("spamTimer")

MouseMove(x, y, scheduled) ==
    /\ Listening
    /\ ui' = handlePointerMove(ui, x, y, scheduled).ui
    /\ scroll' = handlePointerMove(ui, x, y, scheduled).scroll
    /\ UNCHANGED <<ops, sessions, copyVars, lifeVars>>
    /\ Stamp("handlePointerMove")

TouchMove(x, y, scheduled) ==
    /\ Listening
    /\ ui' = handlePointerMove(ui, x, y, scheduled).ui
    /\ scroll' = handlePointerMove(ui, x, y, scheduled).scroll
    /\ UNCHANGED <<ops, sessions, copyVars, lifeVars>>
    /\ Stamp("handlePointerMove")

\* the frame requested by startAutoScroll fires
AutoScrollFrameFire ==
    /\ ui.autoScroll
    /\ ui' = autoScrollFrame(ui, scroll).ui
    /\ scroll' = autoScrollFrame(ui, scroll).scroll
    /\ UNCHANGED <<ops, sessions, copyVars, lifeVars>>
    /\ Stamp("autoScroll")

DetectFire(candidate) ==
    /\ ui.detectPending
    /\ ui' = detectCallback(ui, candidate)
    /\ UNCHANGED <<ops, sessions, scroll, copyVars, lifeVars>>
    /\ Stamp("detect")

MouseDown(x, y) ==
    /\ Listening
    /\ ui' = pointerDownListener(ui, x, y)
    /\ UNCHANGED <<ops, sessions, scroll, copyVars, lifeVars>>
    /\ Stamp("handlePointerDown")

TouchStart(x, y) ==
    /\ Listening
    /\ ui' = pointerDownListener(ui, x, y)
    /\ UNCHANGED <<ops, sessions, scroll, copyVars, lifeVars>>
    /\ Stamp("handlePointerDown")

\* handlePointerUp while dragging: the ui part, the copy operation it
\* starts (waiting for getNearestComponentName) and the record of the gesture
PointerUp(x, y, elementAt, strictResult, looseResult) ==
    /\ Listening
    /\ ui.isDragging
    /\ ui' = handlePointerUp(ui, x, y, elementAt, strictResult, looseResult)
    /\ ops' = StartOp("lookup",
                      "grab",
                      pointerUpCopies(ui, x, y, elementAt, strictResult, looseResult),
                      "")
    /\ lastResolve' =
          [gesture |-> IF wasDragGesture(ui, x, y) THEN "drag" ELSE "click",
           startX |-> ui.dragStartX, startY |-> ui.dragStartY,
           endX |-> x + scroll[1], endY |-> y + scroll[2],
           rect |-> calculateDragRectangle(ui, x, y),
           elementAt |-> elementAt, strict |-> strictResult, loose |-> looseResult,
           queries |-> pointerUpQueries(ui, x, y, strictResult),
           selected |-> IF wasDragGesture(ui, x, y)
                        THEN selectedElements(strictResult, looseResult)
                        ELSE <<>>,
           copies |-> pointerUpCopies(ui, x, y, elementAt, strictResult, looseResult)]
    /\ lastEvent' = "handlePointerUp"
    /\ UNCHANGED <<sessions, scroll, copyVars, lifeVars>>

MouseUp(x, y, elementAt, strictResult, looseResult) ==
    PointerUp(x, y, elementAt, strictResult, looseResult)

TouchEnd(x, y, elementAt, strictResult, looseResult) ==
    PointerUp(x, y, elementAt, strictResult, looseResult)

Click ==
    /\ Listening
    /\ ui' = clickListener(ui)
    /\ UNCHANGED <<ops, sessions, scroll, copyVars, lifeVars>>
    /\ Stamp("click")

\* window scrolls (by the user or by autoscroll)
Scroll(sx, sy) ==
    /\ scroll # <<sx, sy>>
    /\ scroll' = <<sx, sy>>
    /\ UNCHANGED <<ui, ops, sessions, copyVars, lifeVars>>
    /\ Stamp("scroll")

\* the tab becomes hidden: visibilitychange with document.hidden true.
\* ui.hiddenFor tells how long the tab has been hidden: "visible", "short"
\* (at most BLUR_DEACTIVATION_THRESHOLD_MS) or "long"
VisibilityHidden(elapsed) ==
    /\ ui.hiddenFor = "visible"
    /\ ui' = [(IF Listening THEN visibilityListener(ui, elapsed) ELSE ui)
                 EXCEPT !.hiddenFor = "short"]
    /\ UNCHANGED <<ops, sessions, scroll, copyVars, lifeVars>>
    /\ Stamp(IF elapsed THEN "visibilitychangeLate" ELSE "visibilitychangeEarly")

\* the tab shows again: visibilitychange with document.hidden false, on
\* which the listener does nothing
VisibilityVisible ==
    /\ ui.hiddenFor # "visible"
    /\ ui' = [ui EXCEPT !.hiddenFor = "visible"]
    /\ UNCHANGED <<ops, sessions, scroll, copyVars, lifeVars>>
    /\ Stamp("visibilitychangeVisible")

\* BLUR_DEACTIVATION_THRESHOLD_MS pass over the hidden tab; no code runs
HiddenThresholdPasses ==
    /\ ui.hiddenFor = "short"
    /\ ui' = [ui EXCEPT !.hiddenFor = "long"]
    /\ UNCHANGED <<ops, sessions, scroll, copyVars, lifeVars>>
    /\ Stamp("hiddenThreshold")

SelectionChange(collapsed) ==
    /\ Listening
    /\ ui' = selectionchangeListener(ui, collapsed)
    /\ UNCHANGED <<ops, sessions, scroll, copyVars, lifeVars>>
    /\ Stamp("selectionchange")

SelectionTimerFire(result, element) ==
    /\ ui.selectionDebounceTimer
    /\ ui' = selectionTimerCallback(ui, result, element)
    /\ UNCHANGED <<ops, sessions, scroll, copyVars, lifeVars>>
    /\ Stamp("selectionTimer")

\* the renderer's callbacks.  The label, the prompt input and the native
\* selection cursor are drawn by the renderer, which is not part of
\* core.tsx: a callback is taken to be reachable while its control shows
\* (overlay activated, input mode, native selection present)
handleNativeSelectionCopy ==
    /\ ui.hasNativeSelection
    /\ Len(ui.nativeSelectionElements) > 0
    /\ CanStartOp
    /\ ui' = executeCopyOperation(clearNativeSelection(ui))
    /\ ops' = StartOp("copying", "grab", ui.nativeSelectionElements, "")
    /\ UNCHANGED <<sessions, scroll, copyVars, lifeVars>>
    /\ Stamp("nativeSelectionCopy")

NativeSelectionEnter ==
    /\ ui.hasNativeSelection
    /\ ui' = handleNativeSelectionEnter(ui)
    /\ UNCHANGED <<ops, sessions, scroll, copyVars, lifeVars>>
    /\ Stamp("nativeSelectionEnter")

handleInputChange(value) ==
    /\ ui.isInputMode
    /\ ui' = Set(ui, "inputText", value)
    /\ UNCHANGED <<ops, sessions, scroll, copyVars, lifeVars>>
    /\ Stamp("inputChange")

InputCancel ==
    /\ ui.isInputMode
    /\ ui' = handleInputCancel(ui)
    /\ UNCHANGED <<ops, sessions, scroll, copyVars, lifeVars>>
    /\ Stamp("inputCancel")

ToggleExpand ==
    /\ ui.isActivated
    /\ ui' = handleToggleExpand(ui)
    /\ UNCHANGED <<ops, sessions, scroll, copyVars, lifeVars>>
    /\ Stamp("toggleExpand")

\* agentManager.startSession: the session is followed while the manager
\* model has room for it
StartSession(element, prompt, x) ==
    IF Cardinality(sessions) < MaxSessions
    THEN sessions \cup {[element |-> element, prompt |-> prompt, x |-> x]}
    ELSE sessions

handleInputSubmit ==
    LET element == IF ui.frozenElement # NoElement
                   THEN ui.frozenElement ELSE targetElement(ui)
        prompt == IF ui.isInputMode THEN Trim(ui.inputText) ELSE ""
        moved == Apply(ui, << <<"mouseX", BoundsCenterX(element)>>,
                              <<"mouseY", BoundsCenterY(element)>> >>)
    IN  /\ ui.isActivated
        /\ IF element = NoElement
           THEN /\ ui' = deactivateRenderer(ui)
                /\ UNCHANGED <<ops, sessions>>
           ELSE IF ui.hasAgentProvider /\ prompt # ""
           THEN /\ ui' = deactivateRenderer(moved)
                /\ sessions' = StartSession(element, prompt, ui.mouseX)
                /\ UNCHANGED ops
           ELSE /\ ui' = Apply(moved, << <<"isInputMode", FALSE>>,
                                         <<"inputText", "">> >>)
                /\ ops' = StartOp("lookup", "submit", <<element>>, prompt)
                /\ UNCHANGED sessions
        /\ UNCHANGED <<scroll, copyVars, lifeVars>>
        /\ Stamp("inputSubmit")

\* getNearestComponentName resolves: executeCopyOperation starts
LookupResolved(i) ==
    /\ i <= Len(ops)
    /\ ops[i].phase = "lookup"
    /\ ui.progressAnimation => ui.untrackedFrames < MaxFrames
    /\ ui' = executeCopyOperation(ui)
    /\ ops' = [ops EXCEPT ![i].phase = "copying", ![i].label = InstanceId(ui)]
    /\ UNCHANGED <<sessions, scroll, copyVars, lifeVars>>
    /\ Stamp("copyStart")

\* getNearestComponentName rejects: nothing is copied
LookupRejected(i) ==
    /\ i <= Len(ops)
    /\ ops[i].phase = "lookup"
    /\ ops' = RemoveAt(ops, i)
    /\ UNCHANGED <<ui, sessions, scroll, copyVars, lifeVars>>
    /\ Stamp("lookupRejected")

\* the operation of executeCopyOperation settles: the finally callback,
\* then, after an input submit whose copy did not throw, the
\* deactivateRenderer of handleInputSubmit's then callback.
\* outcome: "copied", "failed" (didCopy false) or "threw"
OpSettle(i, outcome) ==
    /\ i <= Len(ops)
    /\ ops[i].phase = "copying"
    /\ ui' = LET a == copyOperationFinally(ui, ops[i].label)
             IN  IF ops[i].kind = "submit" /\ outcome # "threw"
                 THEN deactivateRenderer(a)
                 ELSE a
    /\ ops' = RemoveAt(ops, i)
    /\ UNCHANGED <<sessions, scroll, copyVars, lifeVars>>
    /\ Stamp("copyEnd")

\* a frame of the progress animation that progressAnimationId has lost
\* fires after the animation was stopped
ProgressFrameFire ==
    /\ ui.untrackedFrames > 0
    /\ ~ui.progressAnimation
    /\ ui' = animateProgress(ui)
    /\ UNCHANGED <<ops, sessions, scroll, copyVars, lifeVars>>
    /\ Stamp("progressFrame")

\* the timer armed when a label became "copied" fires
\* (COPIED_LABEL_DURATION_MS later): the label fades and the removal timer
\* is armed
LabelFadeTimerFire(id) ==
    /\ \E k \in 1..Len(ui.labelInstances) :
          /\ ui.labelInstances[k].id = id
          /\ ui.labelInstances[k].status = "copied"
    /\ ui' = updateLabelInstance(ui, id, "fading")
    /\ UNCHANGED <<ops, sessions, scroll, copyVars, lifeVars>>
    /\ Stamp("labelFade")

\* the removal timer fires 350 ms after the label began to fade
LabelRemoveTimerFire(id) ==
    /\ \E k \in 1..Len(ui.labelInstances) :
          /\ ui.labelInstances[k].id = id
          /\ ui.labelInstances[k].status = "fading"
    /\ ui' = removeLabelInstance(ui, id)
    /\ UNCHANGED <<ops, sessions, scroll, copyVars, lifeVars>>
    /\ Stamp("labelRemove")

\* the agent manager calls onAbort for a session it drops
AgentAbort(s, present) ==
    /\ s \in sessions
    /\ ui' = onAbort(ui, s, present)
    /\ sessions' = sessions \ {s}
    /\ UNCHANGED <<ops, scroll, copyVars, lifeVars>>
    /\ Stamp(IF present THEN "agentAbort" ELSE "agentAbortDetached")

\* a session ends by itself
SessionEnd(s) ==
    /\ s \in sessions
    /\ sessions' = sessions \ {s}
    /\ UNCHANGED <<ui, ops, scroll, copyVars, lifeVars>>
    /\ Stamp("sessionEnd")

\* the cursor override the effect on isActivated, isCopying, isDragging,
\* isInputMode and targetElement installs
cursorEffect(u) ==
    IF u.isCopying THEN "progress"
    ELSE IF u.isInputMode THEN "null"
    ELSE IF u.isActivated /\ u.isDragging THEN "crosshair"
    ELSE IF u.isActivated /\ targetElement(u) # NoElement THEN "default"
    ELSE IF u.isActivated THEN "crosshair"
    ELSE "null"

\* the cursor override of a root in state u: the effect's while the root is
\* live; once it is disposed, the cleanup has removed it and the effect no
\* longer runs
cursorOverride(u, root) == IF root = "live" THEN cursorEffect(u) ELSE "null"

onCleanup_KeepsUserSelect(u) ==
    [stopProgressAnimation(stopAutoScroll(u)) EXCEPT
        !.holdTimer = FALSE,
        !.keydownSpamTimer = FALSE]

\* the cleanup of the root
onCleanup(u) ==
    [stopProgressAnimation(stopAutoScroll(u)) EXCEPT
        !.holdTimer = FALSE,
        !.keydownSpamTimer = FALSE,
        !.userSelect = ""]

\* init() called again.  While hasInited is set it returns a handle whose
\* methods do nothing; otherwise it sets hasInited and creates a root with
\* its own listeners
init ==
    /\ ~hasInited
    /\ Len(roots) < MaxRoots
    /\ hasInited' = TRUE
    /\ roots' = Append(roots, "live")
    /\ lastEvent' = "init"
    /\ UNCHANGED <<ui, ops, sessions, scroll, lastResolve, copyVars>>

\* dispose() on the handle of root h, disposed already or not: hasInited is
\* reset and the root is disposed; a root runs its cleanup once
dispose(h) ==
    /\ h <= Len(roots)
    /\ hasInited' = FALSE
    /\ roots' = [roots EXCEPT ![h] = "disposed"]
    /\ ui' = IF h = 1 /\ roots[1] = "live" THEN onCleanup(ui) ELSE ui
    /\ lastEvent' = "dispose"
    /\ UNCHANGED <<ops, sessions, scroll, lastResolve, copyVars>>

\* the public API
activate ==
    /\ ui' = IF ~ui.isActivated
             THEN activateRenderer(Set(ui, "isToggleMode", TRUE))
             ELSE ui
    /\ UNCHANGED <<ops, sessions, scroll, copyVars, lifeVars>>
    /\ Stamp("activate")

deactivate ==
    /\ ui' = IF ui.isActivated THEN deactivateRenderer(ui) ELSE ui
    /\ UNCHANGED <<ops, sessions, scroll, copyVars, lifeVars>>
    /\ Stamp("deactivate")

toggle ==
    /\ ui' = IF ui.isActivated
             THEN deactivateRenderer(ui)
             ELSE activateRenderer(Set(ui, "isToggleMode", TRUE))
    /\ UNCHANGED <<ops, sessions, scroll, copyVars, lifeVars>>
    /\ Stamp("toggle")

\* setAgent with a provider
setAgent ==
    /\ ~ui.hasAgentProvider
    /\ ui' = Set(ui, "hasAgentProvider", TRUE)
    /\ UNCHANGED <<ops, sessions, scroll, copyVars, lifeVars>>
    /\ Stamp("setAgent")

(***************************************************************************)
(* Specifications.                                                         *)
(***************************************************************************)
InitMain ==
    /\ ui \in {InitUi(agent) : agent \in BOOLEAN}
    /\ ops = <<>>
    /\ sessions = {}
    /\ scroll = <<0, 0>>
    /\ lastResolve = NoResolve
    /\ lastEvent = "init"
    /\ hasInited = TRUE
    /\ roots = <<"live">>

\* the page of the interaction machine's runs: every element has a snippet
DefaultDom == [e \in Elements |-> [snip |-> "ok", text |-> "t"]]

Init ==
    /\ InitMain
    /\ dom = DefaultDom
    /\ calls = <<>>

\* the keyboard events told apart, as <<key, meta or ctrl held, repeat, from
\* the overlay>>: one for every branch of the keydown listener
KeyDownEvents ==
    { <<"Escape", FALSE, FALSE, FALSE>>, <<"Escape", FALSE, FALSE, TRUE>>,
      <<"Enter", FALSE, FALSE, FALSE>>,
      <<"c", TRUE, FALSE, FALSE>>, <<"c", TRUE, TRUE, FALSE>>,
      <<"c", FALSE, FALSE, FALSE>>,
      <<"o", TRUE, FALSE, FALSE>>, <<"v", TRUE, FALSE, FALSE>>,
      <<"v", FALSE, FALSE, FALSE>>, <<"Meta", TRUE, FALSE, FALSE>> }

\* keyup events, as <<key, meta or ctrl still held>>
KeyUpEvents ==
    { <<"Meta", FALSE>>, <<"c", TRUE>>, <<"c", FALSE>>, <<"v", TRUE>> }

\* the pointer-up inputs of the interaction machine's runs, as <<x, y,
\* element at the point, strict result, loose result>>: a click on an
\* element and on none, a drag over two elements, over one that only the
\* loose query finds, and over none
MainDown == <<0, 0>>
MainUps ==
    { <<0, 0, "e1", <<>>, <<>> >>,
      <<0, 0, NoElement, <<>>, <<>> >>,
      <<DRAG_THRESHOLD_PX + 1, 0, NoElement, <<"e1", "e2">>, <<>> >>,
      <<DRAG_THRESHOLD_PX + 1, 0, NoElement, <<>>, <<"e2">> >>,
      <<DRAG_THRESHOLD_PX + 1, 0, NoElement, <<>>, <<>> >> }
MainPoints == {<<0, 0>>, <<DRAG_THRESHOLD_PX + 1, DRAG_THRESHOLD_PX + 1>>}

KeyboardEvents ==
    \/ \E e \in KeyDownEvents : KeyDown(e[1], e[2], e[3], e[4])
    \/ \E e \in KeyUpEvents : KeyUp(e[1], e[2])
    \/ HoldTimerFire
    \/ SpamTimerFire

ApiCalls ==
    \/ activate
    \/ deactivate
    \/ toggle
    \/ setAgent

PageEvents ==
    \/ Click
    \/ \E elapsed \in BOOLEAN : VisibilityHidden(elapsed)
    \/ VisibilityVisible
    \/ HiddenThresholdPasses

PointerGestures ==
    \/ MouseDown(MainDown[1], MainDown[2])
    \/ TouchStart(MainDown[1], MainDown[2])
    \/ \E g \in MainUps : MouseUp(g[1], g[2], g[3], g[4], g[5])
    \/ \E g \in MainUps : TouchEnd(g[1], g[2], g[3], g[4], g[5])

LabelTimers ==
    \/ \E id \in LabelIds : LabelFadeTimerFire(id)
    \/ \E id \in LabelIds : LabelRemoveTimerFire(id)

CopyOperations ==
    \/ \E i \in 1..MaxOps : LookupResolved(i)
    \/ \E i \in 1..MaxOps : LookupRejected(i)
    \/ \E i \in 1..MaxOps, outcome \in {"copied", "failed", "threw"} : OpSettle(i, outcome)
    \/ ProgressFrameFire

InputCallbacks ==
    \/ \E value \in InputTexts : handleInputChange(value)
    \/ InputCancel
    \/ ToggleExpand
    \/ handleInputSubmit

AgentEvents ==
    \/ \E s \in sessions, present \in BOOLEAN : AgentAbort(s, present)
    \/ \E s \in sessions : SessionEnd(s)

HoverEvents(points) ==
    \/ \E p \in points, scheduled \in BOOLEAN : MouseMove(p[1], p[2], scheduled)
    \/ \E p \in points, scheduled \in BOOLEAN : TouchMove(p[1], p[2], scheduled)
    \/ \E candidate \in Elements \cup {NoElement} : DetectFire(candidate)

SelectionEvents ==
    \/ \E collapsed \in BOOLEAN : SelectionChange(collapsed)
    \/ \E result \in {"gone", "editable", "invalid", "valid"}, e \in Elements :
          SelectionTimerFire(result, e)
    \/ handleNativeSelectionCopy
    \/ NativeSelectionEnter

\* The machine is explored in slices, each made of the keyboard and API
\* events that activate and deactivate the overlay and of the events of one
\* feature.  Next: the pointer gestures and the copy operations they start.
Next ==
    \/ KeyboardEvents
    \/ ApiCalls
    \/ PageEvents
    \/ PointerGestures
    \/ CopyOperations

Spec == Init /\ [][Next]_vars

\* the prompt input and the agent sessions, over the element detected under
\* a pointer that stays at one point
NextInput ==
    \/ KeyboardEvents
    \/ ApiCalls
    \/ InputCallbacks
    \/ AgentEvents
    \/ HoverEvents({MainDown})
    \/ CopyOperations

SpecInput == Init /\ [][NextInput]_vars

\* the element under a moving pointer, with the gestures that freeze it
NextHover ==
    \/ KeyboardEvents
    \/ ApiCalls
    \/ HoverEvents(MainPoints)
    \/ AutoScrollFrameFire
    \/ PointerGestures
    \/ CopyOperations

SpecHover == Init /\ [][NextHover]_vars

\* the native text selection
NextSelection ==
    \/ KeyboardEvents
    \/ ApiCalls
    \/ PageEvents
    \/ SelectionEvents
    \/ \E i \in 1..MaxOps, outcome \in {"copied", "failed", "threw"} : OpSettle(i, outcome)
    \/ ProgressFrameFire

SpecSelection == Init /\ [][NextSelection]_vars

\* init() and dispose() over the keyboard, the API, the page events, the
\* pointer gestures and the copy operations
LifecycleCalls ==
    \/ init
    \/ \E h \in 1..MaxRoots : dispose(h)

NextLifecycle ==
    \/ LifecycleCalls
    \/ KeyboardEvents
    \/ ApiCalls
    \/ PageEvents
    \/ PointerGestures
    \/ CopyOperations

SpecLifecycle == Init /\ [][NextLifecycle]_vars

\* the labels of the copies: the gestures that start copies, every copy
\* given bounds and a tag name, and the label timers.  A copy that has
\* started settles and an armed timer fires
InitLabels ==
    /\ ui \in {[InitUi(agent) EXCEPT !.labelBounds = TRUE] : agent \in BOOLEAN}
    /\ ops = <<>>
    /\ sessions = {}
    /\ scroll = <<0, 0>>
    /\ lastResolve = NoResolve
    /\ lastEvent = "init"
    /\ hasInited = TRUE
    /\ roots = <<"live">>
    /\ dom = DefaultDom
    /\ calls = <<>>

NextLabels ==
    \/ activate
    \/ deactivate
    \/ MouseDown(MainDown[1], MainDown[2])
    \/ \E g \in MainUps : MouseUp(g[1], g[2], g[3], g[4], g[5])
    \/ CopyOperations
    \/ LabelTimers

\* the step of OpSettle as ops shows it: the copy at position i, inside
\* executeCopyOperation, leaves ops
OpSettles(i) ==
    /\ i <= Len(ops)
    /\ ops[i].phase = "copying"
    /\ ops' = RemoveAt(ops, i)

LabelsFairness ==
    /\ \A i \in 1..MaxOps : WF_ops(OpSettles(i))
    /\ \A id \in LabelIds : WF_vars(LabelFadeTimerFire(id))
    /\ \A id \in LabelIds : WF_vars(LabelRemoveTimerFire(id))

SpecLabels == InitLabels /\ [][NextLabels]_vars /\ LabelsFairness

\* the pointer gestures alone: pointer-down at either corner, pointer-up at
\* every point of the grid, every result of the element queries, the window
\* scrolling in between
AxisPoints == AxisValues \X AxisValues
DragDowns == {<<0, 0>>, <<DRAG_THRESHOLD_PX + 1, DRAG_THRESHOLD_PX + 1>>}
DragElementAt == {NoElement, "e1"}
DragStrict == {<<>>, <<"e1">>, <<"e1", "e2">>}
DragLoose == {<<>>, <<"e2">>}

NextDrag ==
    \/ activate
    \/ deactivate
    \/ \E p \in DragDowns : MouseDown(p[1], p[2])
    \/ \E p \in DragDowns : TouchStart(p[1], p[2])
    \/ \E p \in AxisPoints, at \in DragElementAt, sr \in DragStrict, lr \in DragLoose :
          MouseUp(p[1], p[2], at, sr, lr)
    \/ \E p \in AxisPoints, at \in DragElementAt, sr \in DragStrict, lr \in DragLoose :
          TouchEnd(p[1], p[2], at, sr, lr)
    \/ \E sx \in ScrollValues, sy \in ScrollValues : Scroll(sx, sy)
    \/ CopyOperations

SpecDrag == Init /\ [][NextDrag]_vars

\* pointer-down in every mode: the overlay activated by the API or by a key
\* hold, Enter opening the prompt input, clicks and drags from either
\* corner, the copies they start, and the window scrolling in between
NextPress ==
    \/ activate
    \/ deactivate
    \/ KeyDown("c", TRUE, FALSE, FALSE)
    \/ KeyDown("Enter", FALSE, FALSE, FALSE)
    \/ HoldTimerFire
    \/ \E p \in DragDowns : MouseDown(p[1], p[2])
    \/ \E p \in DragDowns : TouchStart(p[1], p[2])
    \/ \E g \in MainUps : MouseUp(g[1], g[2], g[3], g[4], g[5])
    \/ \E sx \in ScrollValues, sy \in ScrollValues : Scroll(sx, sy)
    \/ CopyOperations

SpecPress == Init /\ [][NextPress]_vars

\* the copy orchestrator alone, over every page content
InitCopy ==
    /\ dom \in DomStates
    /\ calls = <<>>
    /\ InitMain
    /\ ~ui.hasAgentProvider

NextCopy ==
    \/ \E els \in ElementLists : copyElementAPI(els)
    \/ \E els \in ElementLists, prompt \in Prompts : OverlayCopy(els, prompt)
    \/ \E i \in 1..Len(calls) : ApiBeforeCopyDone(i)
    \/ \E i \in 1..Len(calls) : BeforeCopyDone(i)
    \/ \E i \in 1..Len(calls) : SnippetsSettled(i)
    \/ \E i \in 1..Len(calls), o \in WriteOutcomes, t \in BOOLEAN :
          StructuredWriteDone(i, o, t)
    \/ \E i \in 1..Len(calls), o \in WriteOutcomes, t \in BOOLEAN :
          FallbackWriteDone(i, o, t)
    \/ \E i \in 1..Len(calls), o \in WriteOutcomes : CatchWriteDone(i, o)

SpecCopy == InitCopy /\ [][NextCopy]_vars


(***************************************************************************)
(* Properties of the copy orchestrator (checked under SpecCopy).           *)
(***************************************************************************)
CallIds == 1..Len(calls)
Settled(c) == c.pc \in {"done", "threw"}
HookCount(c, name) == Cardinality({k \in 1..Len(c.hooks) : c.hooks[k].hook = name})
OkWrites(c) == Cardinality({k \in 1..Len(c.writes) : c.writes[k].outcome = "ok"})
\* no snippet and no text for any element of the list
NoContent(c) ==
    \A k \in 1..Len(c.els) : dom[c.els[k]].snip # "ok" /\ dom[c.els[k]].text = "blank"

\* C5: copyElement([]) resolves to false, writes nothing to the clipboard and
\* invokes no hook.
C5_EmptyListCopiesNothing ==
    \A i \in CallIds :
        (calls[i].api /\ calls[i].els = <<>>) =>
            /\ calls[i].pc = "done"
            /\ ~calls[i].didCopy
            /\ calls[i].hooks = <<>>
            /\ calls[i].writes = <<>>

\* C5 witness: copyElement([]) has returned next to a call that did copy.
C5_Witness ==
    \E i, j \in CallIds :
        /\ calls[i].api /\ calls[i].els = <<>> /\ calls[i].pc = "done"
        /\ calls[j].pc = "done" /\ calls[j].didCopy

\* C6: two copyElement calls with the same single element and a clipboard that
\* always succeeds give exactly two onAfterCopy(elements, true) calls in total.
C6_TwoCallsTwoAfterCopy ==
    ( /\ Len(calls) = 2
      /\ \A i \in CallIds :
            /\ calls[i].api /\ calls[i].pc = "done"
            /\ calls[i].els = calls[1].els /\ Len(calls[i].els) = 1
            /\ Len(calls[i].writes) = 1 /\ OkWrites(calls[i]) = 1
            /\ calls[i].thrown = 0 )
    => Cardinality({<<i, k>> \in CallIds \X (1..8) :
                       /\ k <= Len(calls[i].hooks)
                       /\ calls[i].hooks[k].hook = "onAfterCopy"
                       /\ calls[i].hooks[k].ok}) = 2

\* C7: in every invocation on a non-empty list, once it has settled,
\* onBeforeCopy is the first hook and onAfterCopy(elements, didCopy) the last.
C7_BeforeFirstAfterLast ==
    \A i \in CallIds :
        (Len(calls[i].els) > 0 /\ Settled(calls[i])) =>
            /\ Len(calls[i].hooks) >= 2
            /\ calls[i].hooks[1].hook = "onBeforeCopy"
            /\ calls[i].hooks[Len(calls[i].hooks)] =
                  Hook("onAfterCopy", calls[i].didCopy, NoText)

C9_SuccessHookIffCopied ==
    \A i \in CallIds :
        (Len(calls[i].els) > 0 /\ calls[i].pc = "done") =>
            IF calls[i].didCopy
            THEN /\ HookCount(calls[i], "onCopySuccess") = 1
                 /\ \E k \in 1..Len(calls[i].hooks) :
                       /\ calls[i].hooks[k].hook = "onCopySuccess"
                       /\ calls[i].hooks[k].text =
                             calls[i].writes[Len(calls[i].writes)].text
            ELSE HookCount(calls[i], "onCopySuccess") = 0

\* C10: onCopyError is invoked once for an exception of the structured path
\* and never otherwise; an invocation that can produce no content returns
\* false without throwing, without a write attempt and without onCopyError.
C10_ErrorHookIffThrown ==
    \A i \in CallIds :
        /\ HookCount(calls[i], "onCopyError") = calls[i].thrown
        /\ calls[i].thrown <= 1
        /\ (Len(calls[i].els) > 0 /\ NoContent(calls[i])) =>
              /\ calls[i].pc \in {"apiAwaitBefore", "awaitBefore", "awaitSnippets", "done"}
              /\ ~calls[i].didCopy
              /\ calls[i].writes = <<>>
              /\ HookCount(calls[i], "onCopyError") = 0

\* C10 witness: one invocation caught an exception of the structured path and
\* reported it, another had no content and returned false.
C10_Witness ==
    \E i, j \in CallIds :
        /\ calls[i].pc = "done" /\ calls[i].thrown = 1
        /\ HookCount(calls[i], "onCopyError") = 1
        /\ Len(calls[j].els) > 0 /\ NoContent(calls[j]) /\ calls[j].pc = "done"


(***************************************************************************)
(* Properties of the interaction machine (checked under Spec).             *)
(***************************************************************************)
\* C1: in every reachable state at most one of isDragging, isCopying and
\* isInputMode is true.
C1_AtMostOneMode ==
    Cardinality({f \in {"isDragging", "isCopying", "isInputMode"} : ui[f]}) <= 1

\* the handlers that call activateRenderer
Activators ==
    {"holdTimer", "keydown", "activate", "toggle", "agentAbort", "nativeSelectionEnter"}

\* C2: a keyup that releases the activation keys while isHoldingKeys is true
\* and the hold timer is pending cancels the timer and leaves the overlay
\* not activated; the timer fires only while pending and is armed only by a
\* keydown, so the overlay is activated afterwards only by a later keydown
\* or by another handler that activates it.
C2_ReleasedHoldTimerNeverFires ==
    [][ /\ (ui.isHoldingKeys /\ ui.holdTimer /\ ~ui.isActivated
               /\ lastEvent' = "keyupHolding")
            => (~ui'.holdTimer /\ ~ui'.isHoldingKeys /\ ~ui'.isActivated)
        /\ (~ui.holdTimer /\ ui'.holdTimer) => lastEvent' = "keydown"
        /\ (lastEvent' = "holdTimer") => ui.holdTimer
        /\ (~ui.isActivated /\ ui'.isActivated) => lastEvent' \in Activators
      ]_vars

\* C2 witness: the keys were released in the holding state and nothing is
\* left pending.
C2_Witness ==
    /\ lastEvent = "keyupHolding"
    /\ ~ui.isHoldingKeys /\ ~ui.holdTimer /\ ~ui.isActivated

(***************************************************************************)
(* Properties of the pointer gestures (checked under SpecDrag).            *)
(***************************************************************************)
Abs(n) == IF n < 0 THEN 0 - n ELSE n
\* displacement of the gesture handlePointerUp resolved last: pointer-up
\* page position minus recorded drag-start page position
DisplacementX == Abs(lastResolve.endX - lastResolve.startX)
DisplacementY == Abs(lastResolve.endY - lastResolve.startY)
Resolved == lastResolve.gesture # "none"

\* C3: a pointer-up whose displacement is at most DRAG_THRESHOLD_PX on both
\* axes resolves via click-grab: only getElementAtPosition is called and the
\* only element copied is the one found at the pointer-up position.
C3_SmallDisplacementIsClickGrab ==
    (Resolved /\ DisplacementX <= DRAG_THRESHOLD_PX /\ DisplacementY <= DRAG_THRESHOLD_PX)
    => /\ lastResolve.gesture = "click"
       /\ lastResolve.queries = {"getElementAtPosition"}
       /\ lastResolve.copies = IF lastResolve.elementAt = NoElement
                               THEN <<>> ELSE <<lastResolve.elementAt>>

\* C3 witness: a displacement of exactly the threshold was resolved as a
\* click on e1 although the rectangle queries would have found elements.
C3_Witness ==
    /\ Resolved
    /\ DisplacementX = DRAG_THRESHOLD_PX /\ DisplacementY <= DRAG_THRESHOLD_PX
    /\ lastResolve.strict # <<>>
    /\ lastResolve.copies = <<"e1">>
    /\ Len(ops) > 0

\* C4: a pointer-up whose displacement exceeds DRAG_THRESHOLD_PX on an axis
\* resolves via the rectangle query and never via getElementAtPosition; the
\* selected elements are the strict result when it is non-empty and the loose
\* result otherwise, the loose query being made only when the strict result
\* is empty.  The selection is copied, or with an agent provider frozen for
\* the prompt input.
C4_LargeDisplacementIsRectangleQuery ==
    (Resolved /\ (DisplacementX > DRAG_THRESHOLD_PX \/ DisplacementY > DRAG_THRESHOLD_PX))
    => /\ lastResolve.gesture = "drag"
       /\ "getElementAtPosition" \notin lastResolve.queries
       /\ "getElementsInDrag" \in lastResolve.queries
       /\ ("getElementsInDragLoose" \in lastResolve.queries) <=> (lastResolve.strict = <<>>)
       /\ lastResolve.selected = IF lastResolve.strict # <<>>
                                 THEN lastResolve.strict ELSE lastResolve.loose
       /\ IF ui.hasAgentProvider
          THEN /\ lastResolve.copies = <<>>
               /\ lastResolve.selected # <<>> =>
                     (ui.isInputMode /\ ui.frozenElement = lastResolve.selected[1])
          ELSE lastResolve.copies = lastResolve.selected

\* C4 witness: a drag past the threshold on the x axis only, where the strict
\* query found nothing and the loose query found e2, which is copied.
C4_Witness ==
    /\ Resolved
    /\ DisplacementX > DRAG_THRESHOLD_PX /\ DisplacementY <= DRAG_THRESHOLD_PX
    /\ lastResolve.strict = <<>> /\ lastResolve.loose = <<"e2">>
    /\ lastResolve.copies = <<"e2">>
    /\ Len(ops) > 0

(***************************************************************************)
(* Labels of the copy operations.                                          *)
(***************************************************************************)
\* the status of the label instance named id, "removed" when none is shown
LabelStatus(u, id) ==
    IF \E k \in 1..Len(u.labelInstances) : u.labelInstances[k].id = id
    THEN u.labelInstances[CHOOSE k \in 1..Len(u.labelInstances) :
                             u.labelInstances[k].id = id].status
    ELSE "removed"

\* the steps a label may take; "removed" to "copying" is a new instance
LabelSteps ==
    { <<"removed", "copying">>, <<"copying", "copied">>,
      <<"copied", "fading">>, <<"fading", "removed">> }

LabelAdvances ==
    \A id \in LabelIds :
        \/ LabelStatus(ui', id) = LabelStatus(ui, id)
        \/ <<LabelStatus(ui, id), LabelStatus(ui', id)>> \in LabelSteps

\* C11: a label instance created by a copy operation only moves from copying
\* to copied to fading to removed, never backwards, and, the copy operation
\* settling, it is eventually removed from labelInstances
C11_LabelsAdvanceAndAreRemoved ==
    /\ [][LabelAdvances]_vars
    /\ \A id \in LabelIds :
          (LabelStatus(ui, id) # "removed") ~> (LabelStatus(ui, id) = "removed")

\* a label was removed by its removal timer while another one still fades
C11_Witness ==
    /\ lastEvent = "labelRemove"
    /\ Len(ui.labelInstances) = 1
    /\ ui.labelInstances[1].status \in {"copied", "fading"}

(***************************************************************************)
(* The target element and the frozen element.                              *)
(***************************************************************************)
\* what getState() reports
getStateAPI(u) ==
    [isActive |-> u.isActivated, isDragging |-> u.isDragging,
     isCopying |-> u.isCopying, isInputMode |-> u.isInputMode,
     targetElement |-> targetElement(u)]

\* C12: the target element, as the memo gives it and as getState reports
\* it, is an element only while the overlay is activated and no drag is
\* under way
C12_TargetOnlyWhenActivatedNotDragging ==
    getStateAPI(ui).targetElement # NoElement =>
        /\ getStateAPI(ui).isActive
        /\ ~getStateAPI(ui).isDragging

\* a drag over a detected element has just ended and the element is the
\* target again
C12_Witness ==
    /\ lastEvent = "handlePointerUp"
    /\ getStateAPI(ui).targetElement # NoElement

\* a copy or the prompt input is under way before and after the step
MidOperation == (ui.isCopying \/ ui.isInputMode) /\ (ui'.isCopying \/ ui'.isInputMode)

\* C13: once set, the frozen element stays the same element while a copy or
\* the prompt input is under way, whatever the pointer or a detection
\* callback does, and is cleared only by a deactivation
C13_FrozenElementStable ==
    [][(ui.frozenElement # NoElement /\ MidOperation) =>
          \/ ui'.frozenElement = ui.frozenElement
          \/ ui'.frozenElement = NoElement /\ ~ui'.isActivated]_vars

(***************************************************************************)
(* The native selection.                                                   *)
(***************************************************************************)
\* C14: hasNativeSelection is true only with an element that passed
\* isValidGrabbableElement in nativeSelectionElements, and only while the
\* overlay is not activated
C14_NativeSelectionOnlyWhenIdle ==
    ui.hasNativeSelection =>
        /\ Len(ui.nativeSelectionElements) > 0
        /\ ~ui.isActivated

(***************************************************************************)
(* Agent sessions.                                                         *)
(***************************************************************************)
\* the step is the abort of session s with its element attached
Aborts(s) == s \in sessions /\ s \notin sessions' /\ lastEvent' = "agentAbort"

\* C15: with an agent provider, a prompt P submitted in input mode over the
\* frozen element E starts a session; its abort right after, E still attached,
\* gives input mode with the text P, E frozen and the overlay activated
C15_AbortRestoresInputMode ==
    [][\A s \in sessions :
          (lastEvent = "inputSubmit" /\ Aborts(s)) =>
              /\ ui'.isInputMode
              /\ ui'.inputText = s.prompt
              /\ ui'.frozenElement = s.element
              /\ ui'.isActivated]_vars

\* the step is the abort of session s with its element absent or detached
AbortsDetached(s) ==
    s \in sessions /\ s \notin sessions' /\ lastEvent' = "agentAbortDetached"

\* C16: the abort of a session whose element is absent or no longer in the
\* document changes no field of the state machine
C16_DetachedAbortChangesNothing ==
    [][\A s \in sessions : AbortsDetached(s) => ui' = ui]_vars

\* a session was aborted with its element gone, the overlay staying
\* deactivated as the submit had left it
C16_Witness ==
    /\ lastEvent = "agentAbortDetached"
    /\ sessions = {}
    /\ ~ui.isActivated
    /\ ~ui.isInputMode
    /\ ui.inputText = ""

(***************************************************************************)
(* Tab visibility.                                                         *)
(***************************************************************************)
\* the step is the tab becoming hidden
Hides == ui.hiddenFor = "visible" /\ ui'.hiddenFor = "short"

\* C17 as stated: a tab hidden for longer than the blur threshold, the
\* overlay activated and not in input mode since it was hidden, ends with the
\* overlay deactivated
C17_HiddenLongDeactivates ==
    [][(/\ lastEvent \in {"visibilitychangeLate", "visibilitychangeEarly"}
        /\ ui.isActivated
        /\ ~ui.isInputMode
        /\ ui.hiddenFor = "short"
        /\ ui'.hiddenFor = "long") => ~ui'.isActivated]_vars

\* C17, amended: the tab becoming hidden deactivates an overlay that is
\* activated, not in input mode and was activated more than the blur
\* threshold before; in input mode no visibility change deactivates, and
\* time passing over a hidden tab changes nothing
C17_HidingLateDeactivates ==
    [][/\ (Hides /\ ui.isActivated /\ ~ui.isInputMode
             /\ lastEvent' = "visibilitychangeLate") => ~ui'.isActivated
       /\ (ui'.hiddenFor # ui.hiddenFor /\ ui.isInputMode) =>
             ui'.isInputMode /\ ui'.isActivated = ui.isActivated
       /\ (ui.hiddenFor = "short" /\ ui'.hiddenFor = "long") =>
             ui'.isActivated = ui.isActivated]_vars

\* the tab was hidden late after the activation, a grab still being looked
\* up, and the overlay went away
C17_Witness ==
    /\ lastEvent = "visibilitychangeLate"
    /\ ui.hiddenFor = "short"
    /\ Len(ops) > 0
    /\ ~ui.isActivated
    /\ ui.activationTimestamp = "null"

(***************************************************************************)
(* Timers and frames.                                                      *)
(***************************************************************************)
\* the step deactivates the overlay
Deactivates == ui.isActivated /\ ~ui'.isActivated

\* C18: right after a deactivation, on whatever path, no hold timer, no
\* spam-guard timer, no autoscroll frame and no frame of the progress
\* animation is pending
C18_NothingPendingAfterDeactivation ==
    [][Deactivates =>
          /\ ~ui'.holdTimer
          /\ ~ui'.keydownSpamTimer
          /\ ~ui'.autoScroll
          /\ ~ui'.progressAnimation
          /\ ui'.untrackedFrames = 0]_vars

(***************************************************************************)
(* init() and dispose().                                                   *)
(***************************************************************************)
\* the roots whose listeners are installed
ListeningRoots == {h \in 1..Len(roots) : roots[h] = "live"}

\* C19: whatever init() and dispose() calls are made, dispose() on a
\* disposed handle included, at most one instance has its listeners
\* installed
C19_AtMostOneInstanceListens == Cardinality(ListeningRoots) <= 1

(***************************************************************************)
(* Side effects on the document.                                           *)
(***************************************************************************)
\* the exits of a drag: the pointer-up, a deactivation while dragging, the
\* disposal of the root
PointerUpStep == ui.isDragging /\ lastEvent' = "handlePointerUp"

DeactivatesWhileDragging == ui.isDragging /\ ui.isActivated /\ ~ui'.isActivated

DisposeStep == roots[1] = "live" /\ roots'[1] = "disposed"

\* C20 as stated: body user-select is none exactly while isDragging is true,
\* and after a pointer-up, after a deactivation while dragging and after
\* dispose() neither it nor the cursor override is left
C20_SelectAndCursorRemovedOnExit ==
    /\ [](ui.userSelect = "none" <=> ui.isDragging)
    /\ [][(PointerUpStep \/ DeactivatesWhileDragging \/ DisposeStep) =>
              /\ ui'.userSelect = ""
              /\ cursorOverride(ui', roots'[1]) = "null"]_vars

\* C20, amended: body user-select is none only while isDragging is true, and
\* exactly then as long as the instance is not disposed; a pointer-up, a
\* deactivation while dragging and dispose() each remove it; dispose()
\* removes the cursor override, a deactivation while dragging leaves none
\* but the progress cursor of a copy in flight, and after a pointer-up the
\* override is the one of the state the overlay is in
C20_SelectRemovedOnExit ==
    /\ [](ui.userSelect = "none" => ui.isDragging)
    /\ []((ui.isDragging /\ Listening) => ui.userSelect = "none")
    /\ [][(PointerUpStep \/ DeactivatesWhileDragging \/ DisposeStep) =>
              ui'.userSelect = ""]_vars
    /\ [][DisposeStep => cursorOverride(ui', roots'[1]) = "null"]_vars
    /\ [][DeactivatesWhileDragging =>
              cursorOverride(ui', roots'[1]) =
                  IF ui'.isCopying /\ roots'[1] = "live" THEN "progress" ELSE "null"]_vars
    /\ [][PointerUpStep =>
              cursorOverride(ui', roots'[1]) = cursorEffect(ui')]_vars

\* the instance was disposed in the middle of a drag
C20_Witness ==
    /\ lastEvent = "dispose"
    /\ roots[1] = "disposed"
    /\ ui.isDragging
    /\ ui.isActivated
    /\ ui.userSelect = ""

(***************************************************************************)
(* The rectangle of a drag gesture (checked under SpecDrag).               *)
(***************************************************************************)
ResolvedDrag == lastResolve.gesture = "drag"

\* C21 as stated: on a drag gesture from page point (sx, sy) to page point
\* (ex, ey) the rectangle handed to the element queries and to onDragEnd is
\* the page-space rectangle x = min(sx, ex), y = min(sy, ey),
\* width = |ex - sx|, height = |ey - sy|, for every window scroll offset.
C21_DragRectangleIsPageSpace ==
    ResolvedDrag =>
        lastResolve.rect = [x |-> Min(lastResolve.startX, lastResolve.endX),
                            y |-> Min(lastResolve.startY, lastResolve.endY),
                            width |-> DisplacementX, height |-> DisplacementY]

\* C21 amended: the rectangle has the width |ex - sx| and the height
\* |ey - sy|, and its corner is the page-space corner (min(sx, ex),
\* min(sy, ey)) moved back by the window scroll offset at pointer-up, that
\* is the corner in viewport coordinates; it is the page-space rectangle
\* exactly when the window is not scrolled at pointer-up.
C21_DragRectangleIsViewportSpace ==
    ResolvedDrag =>
        /\ lastResolve.rect =
              [x |-> Min(lastResolve.startX, lastResolve.endX) - scroll[1],
               y |-> Min(lastResolve.startY, lastResolve.endY) - scroll[2],
               width |-> DisplacementX, height |-> DisplacementY]
        /\ (scroll = <<0, 0>>) <=>
              (lastResolve.rect.x = Min(lastResolve.startX, lastResolve.endX)
               /\ lastResolve.rect.y = Min(lastResolve.startY, lastResolve.endY))

\* C21 witness: a drag over elements ended towards the top left of its start
\* while the window was scrolled on both axes.
C21_Witness ==
    /\ ResolvedDrag
    /\ scroll = <<1, 1>>
    /\ lastResolve.endX < lastResolve.startX
    /\ lastResolve.endY < lastResolve.startY
    /\ lastResolve.selected # <<>>
    /\ lastResolve.rect.width > DRAG_THRESHOLD_PX

(***************************************************************************)
(* The keydown listener (checked under Spec and SpecInput).                *)
(***************************************************************************)
\* a step that a keydown with the given key, modifier and repeat flag,
\* outside the overlay, makes
KeyDownStep(key, mod, repeat) ==
    /\ Listening
    /\ ui' = keydownHandler(ui, key, mod, repeat, FALSE)
    /\ UNCHANGED <<ops, sessions, scroll>>

\* C22: a keydown of the activation combination with repeat = true never
\* arms the hold timer and changes neither isHoldingKeys nor isActivated, in
\* any state; the hold timer is the only way from a keydown to activation.
C22_RepeatNeverArmsHoldTimer ==
    [][ KeyDownStep("c", TRUE, TRUE)
          => /\ ui'.holdTimer = ui.holdTimer
             /\ ui'.isHoldingKeys = ui.isHoldingKeys
             /\ ui'.isActivated = ui.isActivated
      ]_vars

\* C23: the spam-guard timer never deactivates the overlay while toggle mode
\* is engaged: when the timer expires with isToggleMode true, whether it was
\* set before or after the timer was armed, isActivated stays true.
C23_SpamTimerSparesToggleMode ==
    [][ (lastEvent' = "spamTimer" /\ ui.keydownSpamTimer
            /\ ui.isToggleMode /\ ui.isActivated)
          => ui'.isActivated
      ]_vars

\* the keys told apart that are neither the activation key, nor a bare
\* modifier, nor Enter
ChordKeys == {"Escape", "o", "v"}
\* the state C24 is about
ActivatedPlain == Listening /\ ui.isActivated /\ ~ui.isToggleMode /\ ~ui.isInputMode

Idle(u) == ~u.isActivated /\ ~u.isHoldingKeys /\ ~u.holdTimer /\ ~u.isInputMode

\* C26: pressing Escape while holding the keys or while activated, not in
\* input mode and with no agent session processing, returns the machine to
\* Idle, whichever way the activation was entered.
C26_EscapeReturnsToIdle ==
    (Listening /\ (ui.isHoldingKeys \/ ui.isActivated)
        /\ ~ui.isInputMode /\ ~isProcessing)
    => \A mod \in BOOLEAN, repeat \in BOOLEAN :
          Idle(keydownHandler(ui, "Escape", mod, repeat, FALSE))

\* C27: pressing Enter while holding the keys or while activated, and not
\* in input mode, sets the toggle latch and the frozen latch and enters
\* input mode, the overlay being activated, also when the overlay was
\* activated through activate() or toggle().
C27_EnterOpensInputMode ==
    (Listening /\ (ui.isHoldingKeys \/ ui.isActivated) /\ ~ui.isInputMode)
    => \A mod \in BOOLEAN, repeat \in BOOLEAN :
          LET a == keydownHandler(ui, "Enter", mod, repeat, FALSE)
          IN  /\ a.isToggleMode /\ a.isToggleFrozen
              /\ a.isInputMode /\ a.isActivated

(***************************************************************************)
(* Input submit and the end of a copy (checked under SpecInput).           *)
(***************************************************************************)
\* the element and the prompt handleInputSubmit reads in the current state
SubmitElement ==
    IF ui.frozenElement # NoElement THEN ui.frozenElement ELSE targetElement(ui)
SubmitPrompt == IF ui.isInputMode THEN Trim(ui.inputText) ELSE ""
SubmitStep == lastEvent' = "inputSubmit" /\ ui.isActivated /\ SubmitElement # NoElement

\* a submit with an agent provider and a prompt: one session with that
\* element and prompt, no copy operation, Idle at once
SubmitToAgent ==
    (SubmitStep /\ ui.hasAgentProvider /\ SubmitPrompt # ""
        /\ Cardinality(sessions) < MaxSessions)
    => /\ \E s \in sessions' :
             /\ sessions' = sessions \cup {s} /\ s \notin sessions
             /\ s.element = SubmitElement /\ s.prompt = SubmitPrompt
       /\ ops' = ops
       /\ Idle(ui')

\* any other submit: one copy operation, of kind submit, and no session
SubmitCopies ==
    (SubmitStep /\ ~(ui.hasAgentProvider /\ SubmitPrompt # "") /\ CanStartOp)
    => /\ Len(ops') = Len(ops) + 1
       /\ ops'[Len(ops')].kind = "submit"
       /\ \A k \in 1..Len(ops) : ops'[k] = ops[k]
       /\ sessions' = sessions

\* the copy of a submit has ended, whatever its outcome: deactivated
SubmitCopyEnds ==
    \A i \in 1..Len(ops) :
        (lastEvent' = "copyEnd" /\ ops[i].phase = "copying"
            /\ ops[i].kind = "submit" /\ ops' = RemoveAt(ops, i))
        => ~ui'.isActivated

\* C28: on input submit with a frozen or target element, with an agent
\* provider and a non-empty trimmed prompt exactly one agent session is
\* started with that element and prompt, no copy is made and the machine is
\* Idle at once; otherwise exactly one single-element copy is started, and
\* the machine is deactivated once that copy has ended.
C28_SubmitHandsOffOrCopiesThenDeactivates ==
    [][SubmitToAgent /\ SubmitCopies /\ SubmitCopyEnds]_vars

\* C29: when a copy operation ends, by success or failure, while the toggle
\* latch is engaged, the whole activation is torn down: after the step
\* isCopying, isActivated, isToggleMode, isInputMode and isToggleFrozen are
\* all false.
C29_CopyEndTearsDownToggle ==
    [][ (lastEvent' = "copyEnd" /\ ui.isToggleMode)
          => /\ ~ui'.isCopying /\ ~ui'.isActivated /\ ~ui'.isToggleMode
             /\ ~ui'.isInputMode /\ ~ui'.isToggleFrozen
      ]_vars

\* C29 witness: a copy is in flight in an overlay activated with the toggle
\* latch engaged, and its end tears the activation down.
C29_Witness ==
    /\ ui.isToggleMode /\ ui.isActivated /\ ui.isCopying
    /\ Len(ops) = 1 /\ ops[1].phase = "copying" /\ ops[1].kind = "grab"
    /\ ~copyOperationFinally(ui, ops[1].label).isActivated

(***************************************************************************)
(* Pointer-down (checked under SpecPress).                                 *)
(***************************************************************************)
\* the overlay is activated, not copying and not in input mode
CanStartDrag == ui.isActivated /\ ~ui.isCopying /\ ~ui.isInputMode

C40_AtMostOneSuccessfulWrite ==
    \A i \in CallIds : OkWrites(calls[i]) <= 1

\* the content of the two layers for an invocation: the joined snippets and
\* the joined text contents, each with the extra instruction in front
StructuredContent(c) == WithPrompt(c.prompt, elementSnippets(c.els))
PlainContent(c) == WithPrompt(c.prompt, createCombinedTextContent(c.els))
HasSnippets(c) == Len(elementSnippets(c.els)) > 0
HasText(c) == Len(createCombinedTextContent(c.els)) > 0
\* the write attempts of each layer, as positions in c.writes
StructuredWrites(c) ==
    {k \in 1..Len(c.writes) : HasSnippets(c) /\ c.writes[k].text = StructuredContent(c)}
PlainWrites(c) ==
    {k \in 1..Len(c.writes) : HasText(c) /\ c.writes[k].text = PlainContent(c)}
\* the result of the last write attempted, false when none was
LastWriteOk(c) == Len(c.writes) > 0 /\ c.writes[Len(c.writes)].outcome = "ok"
\* what C32 says of the structured layer, of the order of the layers and of
\* the returned boolean
LayersInOrder(c) ==
    /\ HasSnippets(c) <=> StructuredWrites(c) = {1}
    /\ ~HasSnippets(c) => StructuredWrites(c) = {}
    /\ \A k \in 1..Len(c.writes) : k \in StructuredWrites(c) \cup PlainWrites(c)
    /\ c.pc = "done" => (c.didCopy <=> LastWriteOk(c))

\* C32 as stated: once an invocation has settled, the structured write was
\* attempted iff an element produced a non-empty snippet; the plain-text
\* write was attempted iff the structured layer produced no content or its
\* write returned false, and the combined text is non-empty; the extra
\* instruction is in front of every content written; the returned boolean
\* is the result of the last write attempted.
C32_LayersTriedInOrder ==
    \A i \in CallIds :
        (Len(calls[i].els) > 0 /\ Settled(calls[i])) =>
            /\ LayersInOrder(calls[i])
            /\ PlainWrites(calls[i]) # {} <=>
                  /\ HasText(calls[i])
                  /\ \/ ~HasSnippets(calls[i])
                     \/ calls[i].writes[1].outcome = "fail"

\* C32 amended: the same, except that the plain-text write is attempted iff
\* the combined text is non-empty and the structured layer produced no
\* content, or its write returned false, or an exception was thrown inside
\* the try block (by the structured write, or by onCopySuccess after it);
\* the plain-text write is attempted a second time exactly when the first
\* attempt threw or was followed by a throwing onCopySuccess.
C32_LayersTriedInOrderOrAfterThrow ==
    \A i \in CallIds :
        (Len(calls[i].els) > 0 /\ Settled(calls[i])) =>
            /\ LayersInOrder(calls[i])
            /\ PlainWrites(calls[i]) # {} <=>
                  /\ HasText(calls[i])
                  /\ \/ ~HasSnippets(calls[i])
                     \/ calls[i].writes[1].outcome = "fail"
                     \/ calls[i].thrown = 1
            /\ Cardinality(PlainWrites(calls[i])) <= 2
            /\ Cardinality(PlainWrites(calls[i])) = 2 <=>
                  /\ HasText(calls[i]) /\ calls[i].thrown = 1
                  /\ \/ ~HasSnippets(calls[i])
                     \/ calls[i].writes[1].outcome = "fail"

\* C32 witness: an invocation with a prompt whose structured write returned
\* false and whose plain-text write succeeded, next to one whose structured
\* write threw and whose plain-text write was then attempted.
C32_Witness ==
    \E i, j \in CallIds :
        /\ calls[i].pc = "done" /\ calls[i].prompt = "p" /\ calls[i].didCopy
        /\ Len(calls[i].writes) = 2 /\ calls[i].writes[1].outcome = "fail"
        /\ calls[i].writes[1].text = StructuredContent(calls[i])
        /\ calls[i].writes[2].text = PlainContent(calls[i])
        /\ calls[j].pc = "done" /\ Len(calls[j].writes) = 2
        /\ calls[j].writes[1].outcome = "throw"
        /\ 2 \in PlainWrites(calls[j])

(***************************************************************************)
(* Copy operations that overlap, dragging and deactivation.                *)
(***************************************************************************)
\* C33: isCopying is true as long as any copy operation is inside
\* executeCopyOperation, also when two of them overlap.
C33_CopyingUntilLastOperationEnds ==
    \A k \in 1..Len(ops) : ops[k].phase = "copying" => ui.isCopying

\* C34: in every reachable state isDragging implies isActivated.
C34_DraggingImpliesActivated == ui.isDragging => ui.isActivated

\* C34 witness: a pointer-down has started a drag in an overlay activated
\* through the API.
C34_Witness ==
    /\ lastEvent = "handlePointerDown"
    /\ ui.isDragging /\ ui.isActivated /\ ui.isToggleMode

\* C35: after every step that deactivates the overlay isActivated,
\* isHoldingKeys, isToggleMode, isToggleFrozen, isInputMode, isInputExpanded
\* and isDragging are false, inputText is empty and frozenElement is null.
C35_CleanIdleAfterDeactivation ==
    [][Deactivates =>
          /\ ~ui'.isActivated /\ ~ui'.isHoldingKeys /\ ~ui'.isToggleMode
          /\ ~ui'.isToggleFrozen /\ ~ui'.isInputMode /\ ~ui'.isInputExpanded
          /\ ~ui'.isDragging
          /\ ui'.inputText = ""
          /\ ui'.frozenElement = NoElement]_vars

\* C35 witness: input mode over a detected element was cancelled, which
\* deactivated the overlay.
C35_Witness ==
    /\ lastEvent = "inputCancel"
    /\ ui.detectedElement # NoElement
    /\ ~ui.isActivated /\ ~ui.isInputMode /\ ui.inputText = ""
    /\ ui.frozenElement = NoElement

\* what the public deactivate() leaves of a state
deactivateAPI(u) == IF u.isActivated THEN deactivateRenderer(u) ELSE u

\* C37: after the public deactivate() has returned the overlay is not
\* activated and no hold timer is left that could activate it, so that it
\* is activated again only by a handler of a later keydown, activate(),
\* toggle() or agent abort.
C37_DeactivateLeavesNothingToActivate ==
    /\ [](~deactivateAPI(ui).isActivated /\ ~deactivateAPI(ui).holdTimer)
    /\ [][(~ui.isActivated /\ ~ui.holdTimer /\ ui'.isActivated)
             => lastEvent' \in {"keydown", "activate", "toggle", "agentAbort"}]_vars

(***************************************************************************)
(* Copy operations that fail.                                              *)
(***************************************************************************)
\* C31: when a copy operation whose copy failed (didCopy false) ends, the
\* overlay leaves the copying state and nothing shows success: no label
\* instance turns "copied".
C31_FailedCopyShowsNoSuccess ==
    [][\A i \in 1..MaxOps :
          OpSettle(i, "failed") =>
              /\ ~ui'.isCopying
              /\ \A id \in LabelIds :
                    LabelStatus(ui', id) = "copied" => LabelStatus(ui, id) = "copied"
      ]_vars

\* C39: the label instance of a copy operation reaches "copied" only if the
\* operation succeeded: when the operation ends with didCopy false or by
\* throwing, its label is not "copied" afterwards.
C39_CopiedLabelOnlyAfterSuccess ==
    [][\A i \in 1..MaxOps, outcome \in {"failed", "threw"} :
          (OpSettle(i, outcome) /\ ops[i].label # 0)
              => LabelStatus(ui', ops[i].label) # "copied"
      ]_vars

(***************************************************************************)
(* The host's onActivate and onDeactivate callbacks.                       *)
(***************************************************************************)
\* a host that passes onActivate and onDeactivate, over the keyboard, the
\* API, the prompt input and the copy operations
InitCallbacks ==
    /\ ui \in {[InitUi(agent) EXCEPT !.lifecycleCallbacks = TRUE] : agent \in BOOLEAN}
    /\ ops = <<>>
    /\ sessions = {}
    /\ scroll = <<0, 0>>
    /\ lastResolve = NoResolve
    /\ lastEvent = "init"
    /\ hasInited = TRUE
    /\ roots = <<"live">>
    /\ dom = DefaultDom
    /\ calls = <<>>

NextCallbacks ==
    \/ KeyboardEvents
    \/ ApiCalls
    \/ InputCallbacks
    \/ HoverEvents({MainDown})
    \/ CopyOperations

SpecCallbacks == InitCallbacks /\ [][NextCallbacks]_vars

\* the same host over init() and dispose(), the keyboard, the API, the page
\* events, the pointer gestures and the copy operations
SpecDisposal == InitCallbacks /\ [][NextLifecycle]_vars

\* C36: onActivate and onDeactivate alternate, starting with onActivate:
\* the first callback invoked is onActivate and no two successive
\* invocations are of the same callback.
C36_CallbacksAlternate ==
    /\ Len(ui.callbackLog) = 1 => ui.callbackLog[1] = "onActivate"
    /\ Len(ui.callbackLog) = 2 => ui.callbackLog[1] # ui.callbackLog[2]

\* C38: once dispose() has returned for the root, none of its callbacks is
\* invoked any more by what was pending at the disposal: when a timer
\* fires, a component-name lookup resolves or a copy operation ends, the
\* log of onActivate and onDeactivate stays as it is.
C38_NoCallbackAfterDispose ==
    [][(roots[1] = "disposed"
           /\ lastEvent' \in {"holdTimer", "spamTimer", "copyStart", "copyEnd"})
          => ui'.callbackLog = ui.callbackLog]_vars
====
